-------------------------- MODULE RelicNamesProofs --------------------------
(***************************************************************************)
(* For any names, owners, keys and bounds: domains and handles keep their  *)
(* types, a fork to any block is possible and puts both tables back to     *)
(* what the block found, so that they implement ForkableStore, and a       *)
(* handle stays in the domain of its name.                                 *)
(*                                                                         *)
(* The inductive invariant is Table of AuditLogProofs for each of the two, *)
(* and what holds between them: Linked, of the handles and their domains,  *)
(* now and in each block's past, and Referred, of the activities.          *)
(***************************************************************************)
EXTENDS RelicNames, AuditLogProofs

DomainsOpened == [b \in 1..head |-> opened[b][1]]
HandlesOpened == [b \in 1..head |-> opened[b][2]]

DomainsTable == Table(DomainId, Domain, domains, domainsaudit, DomainsOpened, head)
HandlesTable == Table(Handle, HandleRow, handles, handlesaudit, HandlesOpened, head)

(* A version of handle h belongs to a registration of its domain.          *)
InDomain(table, h, row) ==
  row.fk_domain_id # Null => /\ table[row.fk_domain_id] # Null
                             /\ table[row.fk_domain_id].domain_name = DomainOf[h]

Linked ==
  /\ \A h \in Handle : handles[h] # Null => InDomain(domains, h, handles[h])
  /\ \A b \in 1..head : \A h \in Handle :
       opened[b][2][h] # Null => InDomain(opened[b][1], h, opened[b][2][h])
  /\ \A a \in handlesaudit :
       /\ InDomain(domains, a.id, a.row)
       /\ \A b \in 1..head : a.op < b => InDomain(opened[b][1], a.id, a.row)

(* Domain d, and handle h, have been there since block blk.                *)
DomainHeld(d, blk) ==
  domains[d] # Null /\ \A b \in 1..head : blk < b => opened[b][1][d] # Null
HandleHeld(h, blk) ==
  handles[h] # Null /\ \A b \in 1..head : blk < b => opened[b][2][h] # Null

Referred ==
  \A r \in activities :
    /\ r.fk_block_number \in 1..head
    /\ r.ref # Null /\ r.table = "domainactivities" =>
         r.ref \in DomainId /\ DomainHeld(r.ref, r.fk_block_number)
    /\ r.ref # Null /\ r.table = "handleactivities" =>
         r.ref \in Handle /\ HandleHeld(r.ref, r.fk_block_number)

IInv == TypeOK /\ DomainsTable /\ HandlesTable /\ Linked /\ Referred

LEMMA RowsAreRows == IsRow(Domain) /\ IsRow(HandleRow)
BY NullRowAssumption DEF IsRow, Domain, HandleRow

LEMMA TypesOfTables ==
  ASSUME TypeOK
  PROVE  /\ head \in Nat
         /\ \A d \in DomainId : domains[d] # Null => domains[d] \in Domain
         /\ \A h \in Handle : handles[h] # Null => handles[h] \in HandleRow
         /\ \A b \in 1..head : /\ opened[b][1] \in Rows(DomainId, Domain)
                               /\ opened[b][2] \in Rows(Handle, HandleRow)
                               /\ opened[b] = <<opened[b][1], opened[b][2]>>
BY DEF TypeOK, Rows

-----------------------------------------------------------------------------
LEMMA InitIInv == Init => IInv
<1> SUFFICES ASSUME Init PROVE IInv
  OBVIOUS
<1> USE DEF Init
<1>1. domains \in Rows(DomainId, Domain) /\ handles \in Rows(Handle, HandleRow)
  BY DEF Rows
<1>2. TypeOK
  BY <1>1, NamesAssumption DEF TypeOK
<1>3. DomainsTable
  BY <1>1, RowsAreRows DEF DomainsTable, DomainsOpened, Table, Sound, Exact
<1>4. HandlesTable
  BY <1>1, RowsAreRows DEF HandlesTable, HandlesOpened, Table, Sound, Exact
<1>5. Linked /\ Referred
  BY DEF Linked, Referred
<1> QED BY <1>2, <1>3, <1>4, <1>5 DEF IInv

(* The next block opens, with both tables as they are.                     *)
LEMMA InsBlocksIInv == ASSUME IInv, InsBlocks PROVE IInv'
<1> USE DEF IInv
<1>1. /\ head \in Nat /\ head' = head + 1 /\ head' \in 0..MaxBlock
      /\ opened' = [b \in 1..(head + 1) |->
                      IF b = head + 1 THEN <<domains, handles>> ELSE opened[b]]
      /\ UNCHANGED <<domains, domainsaudit, handles, handlesaudit, activities>>
  BY NamesAssumption DEF InsBlocks, TypeOK
<1>2. TypeOK'
  BY <1>1 DEF TypeOK
<1>3. /\ DomainsOpened' = [b \in 1..(head + 1) |-> IF b = head + 1 THEN domains
                                                   ELSE DomainsOpened[b]]
      /\ HandlesOpened' = [b \in 1..(head + 1) |-> IF b = head + 1 THEN handles
                                                   ELSE HandlesOpened[b]]
  BY <1>1 DEF DomainsOpened, HandlesOpened
<1>4. DomainsTable'
  BY <1>1, <1>3, OpenKeepsTable DEF DomainsTable
<1>5. HandlesTable'
  BY <1>1, <1>3, OpenKeepsTable DEF HandlesTable
<1>6. \A b \in 1..head' : \/ b \in 1..head /\ opened'[b] = opened[b]
                          \/ opened'[b] = <<domains, handles>>
  BY <1>1
<1>7. Linked'
  BY <1>1, <1>6 DEF Linked, InDomain
<1>8. Referred'
  BY <1>1, <1>6 DEF Referred, DomainHeld, HandleHeld
<1> QED BY <1>2, <1>4, <1>5, <1>7, <1>8

-----------------------------------------------------------------------------
(* Domains: no call deletes one or gives it another name.                  *)
LEMMA DomainCallIInv ==
  ASSUME IInv, DomainCall, DomainsTable',
         \A d \in DomainId : domains[d] # Null =>
            domains'[d] # Null /\ domains'[d].domain_name = domains[d].domain_name
  PROVE  IInv'
<1> USE DEF IInv
<1>1. UNCHANGED <<head, handles, handlesaudit, activities, opened>>
  BY DEF DomainCall
<1>2. TypeOK'
  BY <1>1 DEF TypeOK, DomainsTable, Table
<1>3. HandlesTable'
  BY <1>1 DEF HandlesTable, HandlesOpened
<1>4. ASSUME NEW h, NEW row \in HandleRow, InDomain(domains, h, row)
      PROVE  InDomain(domains', h, row)
  BY <1>4 DEF InDomain, HandleRow
<1>5. /\ \A h \in Handle : handles[h] # Null => handles[h] \in HandleRow
      /\ \A a \in handlesaudit : a.row \in HandleRow
  BY DEF TypeOK, Rows, Entries
<1>6. Linked'
  BY <1>1, <1>4, <1>5 DEF Linked
<1>7. Referred'
  BY <1>1 DEF Referred, DomainHeld, HandleHeld
<1> QED BY <1>2, <1>3, <1>6, <1>7

LEMMA InsDomainsIInv ==
  ASSUME IInv, NEW n \in DomainName, NEW o \in Owner, NEW p \in Flag, NEW t \in Stamp,
         InsDomains(n, o, p, t, "active")
  PROVE  IInv'
<1> DEFINE row == [fk_block_number |-> head, domain_name |-> n,
                   fk_owner_account_id |-> o, is_public |-> p,
                   expiration_timestamp |-> t, domain_status |-> "active"]
<1>1. PICK d \in DomainId : domains[d] = Null /\ domains' = [domains EXCEPT ![d] = row]
  BY DEF InsDomains
<1>2. /\ DomainCall /\ head > 0 /\ head \in Nat /\ domains \in Rows(DomainId, Domain)
      /\ UNCHANGED <<head, opened, domainsaudit>>
  BY DEF InsDomains, DomainCall, IInv, TypeOK
<1>3. row \in Domain /\ row.fk_block_number = head
  BY <1>2, NamesAssumption DEF Domain, Status
<1> HIDE DEF row
<1>4. domains' \in Rows(DomainId, Domain)
  BY <1>1, <1>2, <1>3 DEF Rows
<1>5. \A e \in DomainId : \/ domains'[e] = domains[e]
                          \/ /\ domains[e] = Null /\ domains'[e] \in Domain
                             /\ domains'[e].fk_block_number = head
  BY <1>1, <1>2, <1>3 DEF Rows
<1>6. Table(DomainId, Domain, domains', domainsaudit, DomainsOpened, head)
  BY <1>2, <1>4, <1>5, InsertKeepsTable DEF IInv, DomainsTable
<1>7. DomainsTable'
  BY <1>2, <1>6 DEF DomainsTable, DomainsOpened
<1> QED BY <1>2, <1>5, <1>7, DomainCallIInv

(* An update of one row that keeps its name and its block.                 *)
LEMMA UpdateDomainIInv ==
  ASSUME IInv, DomainCall, NEW d \in DomainId, domains[d] # Null,
         NEW row \in Domain, UpdateDomain(d, row),
         row.domain_name = domains[d].domain_name,
         row.fk_block_number = domains[d].fk_block_number
  PROVE  IInv'
<1>1. /\ head > 0 /\ domains \in Rows(DomainId, Domain) /\ UNCHANGED <<head, opened>>
      /\ Room(domainsaudit) /\ domains' = [domains EXCEPT ![d] = row]
      /\ domainsaudit' = Logged(domains, domainsaudit, d, row, head)
  BY DEF DomainCall, UpdateDomain, IInv, TypeOK
<1>2. row.fk_block_number \in 1..head
  BY DEF IInv, DomainsTable, Table, Sound, Rows
<1>3. Table(DomainId, Domain, [domains EXCEPT ![d] = row],
            Logged(domains, domainsaudit, d, row, head), DomainsOpened, head)
  BY <1>1, <1>2, UpdateKeepsTable DEF IInv, DomainsTable
<1>4. DomainsTable'
  BY <1>1, <1>3 DEF DomainsTable, DomainsOpened
<1>5. \A e \in DomainId : domains[e] # Null =>
         domains'[e] # Null /\ domains'[e].domain_name = domains[e].domain_name
  BY <1>1, NullRowAssumption DEF Rows
<1> QED BY <1>4, <1>5, DomainCallIInv

LEMMA UpdDomainExpIInv ==
  ASSUME IInv, NEW n \in DomainName, NEW t \in Stamp, UpdDomainExp(n, t) PROVE IInv'
<1>1. PICK d \in Named(n) :
        UpdateDomain(d, [domains[d] EXCEPT !.expiration_timestamp = t])
  BY DEF UpdDomainExp
<1>2. d \in DomainId /\ domains[d] # Null /\ domains[d] \in Domain
  BY TypesOfTables DEF Named, IInv
<1> DEFINE row == [domains[d] EXCEPT !.expiration_timestamp = t]
<1>3. /\ row \in Domain /\ row.domain_name = domains[d].domain_name
      /\ row.fk_block_number = domains[d].fk_block_number
  BY <1>2 DEF Domain
<1> HIDE DEF row
<1> QED BY <1>1, <1>2, <1>3, UpdateDomainIInv DEF UpdDomainExp, row

LEMMA UpdDomainIsPublicIInv ==
  ASSUME IInv, NEW n \in DomainName, NEW p \in Flag, UpdDomainIsPublic(n, p) PROVE IInv'
<1>1. PICK d \in Named(n) : UpdateDomain(d, [domains[d] EXCEPT !.is_public = p])
  BY DEF UpdDomainIsPublic
<1>2. d \in DomainId /\ domains[d] # Null /\ domains[d] \in Domain
  BY TypesOfTables DEF Named, IInv
<1> DEFINE row == [domains[d] EXCEPT !.is_public = p]
<1>3. /\ row \in Domain /\ row.domain_name = domains[d].domain_name
      /\ row.fk_block_number = domains[d].fk_block_number
  BY <1>2, NamesAssumption DEF Domain
<1> HIDE DEF row
<1> QED BY <1>1, <1>2, <1>3, UpdateDomainIInv DEF UpdDomainIsPublic, row

LEMMA UpdDomainOwnerIInv ==
  ASSUME IInv, NEW n \in DomainName, NEW o \in Owner, UpdDomainOwner(n, o) PROVE IInv'
<1>1. PICK d \in Named(n) : UpdateDomain(d, [domains[d] EXCEPT !.fk_owner_account_id = o])
  BY DEF UpdDomainOwner
<1>2. d \in DomainId /\ domains[d] # Null /\ domains[d] \in Domain
  BY TypesOfTables DEF Named, IInv
<1> DEFINE row == [domains[d] EXCEPT !.fk_owner_account_id = o]
<1>3. /\ row \in Domain /\ row.domain_name = domains[d].domain_name
      /\ row.fk_block_number = domains[d].fk_block_number
  BY <1>2 DEF Domain
<1> HIDE DEF row
<1> QED BY <1>1, <1>2, <1>3, UpdateDomainIInv DEF UpdDomainOwner, row

(* The trigger's entries for the rows of one UPDATE have numbers of their  *)
(* own.                                                                    *)
LEMMA RankType ==
  ASSUME NEW S \in SUBSET DomainId, NEW d
  PROVE  IsFiniteSet({i \in S : i < d}) /\ Cardinality({i \in S : i < d}) \in Nat
<1>1. IsFiniteSet(DomainId)
  BY FS_Interval, NamesAssumption DEF DomainId
<1>2. {i \in S : i < d} \in SUBSET DomainId
  OBVIOUS
<1>3. IsFiniteSet({i \in S : i < d})
  BY <1>1, <1>2, FS_Subset
<1> QED BY <1>3, FS_CardinalityType

LEMMA RanksDiffer ==
  ASSUME NEW S \in SUBSET DomainId, NEW d \in S, NEW e \in S,
         Cardinality({i \in S : i < d}) = Cardinality({i \in S : i < e})
  PROVE  d = e
<1>1. ASSUME NEW i \in S, NEW j \in S, i < j
      PROVE  Cardinality({k \in S : k < i}) < Cardinality({k \in S : k < j})
  <2> DEFINE A == {k \in S : k < i}
             B == {k \in S : k < j}
  <2>1. IsFiniteSet(A) /\ IsFiniteSet(B) /\ Cardinality(A) \in Nat /\ Cardinality(B) \in Nat
    BY RankType
  <2>2. S \subseteq Int
    BY NamesAssumption DEF DomainId
  <2>3. i \notin A /\ i \in B /\ A \subseteq B
    <3>1. i \in Int /\ j \in Int /\ i < j
      BY <1>1, <2>2
    <3>2. ASSUME NEW k \in A PROVE k \in B
      <4>1. k \in Int /\ k \in S /\ k < i
        BY <2>2
      <4>2. k < j
        BY <3>1, <4>1
      <4> QED BY <4>1, <4>2
    <3>3. i \in B /\ ~ (i < i)
      BY <3>1
    <3>4. i \notin A
      BY <3>3
    <3> HIDE DEF A, B
    <3> QED BY <3>2, <3>3, <3>4
  <2> HIDE DEF A, B
  <2>4. IsFiniteSet(A \cup {i}) /\ Cardinality(A \cup {i}) = Cardinality(A) + 1
    BY <2>1, <2>3, FS_AddElement
  <2>5. Cardinality(A \cup {i}) <= Cardinality(B)
    BY <2>1, <2>3, FS_Subset
  <2>6. Cardinality(A) < Cardinality(B)
    BY <2>1, <2>4, <2>5
  <2> QED BY <2>6 DEF A, B
<1>2. ASSUME NEW i \in S PROVE Cardinality({k \in S : k < i}) \in Nat
  BY RankType
<1>3. d < e \/ e < d \/ d = e
  BY NamesAssumption DEF DomainId
<1> QED BY <1>1, <1>2, <1>3

LEMMA UpdDomainBurntIInv ==
  ASSUME IInv, NEW n \in DomainName, UpdDomainBurnt(n) PROVE IInv'
<1> DEFINE new == Burnt(n)
           changed == {d \in DomainId : new[d] # domains[d]}
           pk(d) == NextPk(domainsaudit) + Cardinality({e \in changed : e < d})
           entry(d) == [pk |-> pk(d), id |-> d, op |-> head, row |-> domains[d]]
           entries == {entry(d) : d \in changed}
<1>1. /\ DomainCall /\ head > 0 /\ head \in Nat /\ Room(domainsaudit)
      /\ domains \in Rows(DomainId, Domain) /\ UNCHANGED <<head, opened>>
      /\ domains' = new /\ domainsaudit' = domainsaudit \cup entries
      /\ \A a \in domainsaudit \cup entries : a.pk <= MaxPk
  <2>1. BurntLog(n) = domainsaudit \cup entries
    BY DEF BurntLog
  <2>2. /\ DomainCall /\ head > 0 /\ Room(domainsaudit)
        /\ domains' = new /\ domainsaudit' = BurntLog(n)
        /\ \A a \in BurntLog(n) : a.pk <= MaxPk
    BY DEF UpdDomainBurnt, DomainCall
  <2> HIDE DEF new, entries
  <2>3. head \in Nat /\ domains \in Rows(DomainId, Domain)
    BY DEF IInv, TypeOK
  <2>4. UNCHANGED <<head, opened>>
    BY <2>2 DEF DomainCall
  <2> QED BY <2>1, <2>2, <2>3, <2>4
<1>2. /\ new \in Rows(DomainId, Domain)
      /\ \A d \in DomainId : domains[d] # Null =>
           /\ new[d] # Null /\ new[d].domain_name = domains[d].domain_name
           /\ new[d].fk_block_number = domains[d].fk_block_number
      /\ \A d \in DomainId : domains[d] = Null => new[d] = Null
  <2>1. ASSUME NEW d \in DomainId, domains[d] # Null
        PROVE  /\ new[d] \in Domain /\ new[d].domain_name = domains[d].domain_name
               /\ new[d].fk_block_number = domains[d].fk_block_number
    <3>1. domains[d] \in Domain
      BY <1>1, <2>1 DEF Rows
    <3>2. CASE d \in Named(n)
      BY <3>1, <3>2 DEF Burnt, Domain, Status
    <3>3. CASE d \notin Named(n)
      BY <3>1, <3>3 DEF Burnt
    <3> QED BY <3>2, <3>3
  <2>2. ASSUME NEW d \in DomainId, domains[d] = Null PROVE new[d] = Null
    BY <2>2 DEF Burnt, Named
  <2>3. new = [d \in DomainId |-> new[d]]
    BY DEF Burnt
  <2> HIDE DEF new
  <2>4. \A d \in DomainId : new[d] \in Domain \cup {Null}
    BY <2>1, <2>2
  <2> QED BY <2>1, <2>2, <2>3, <2>4, NullRowAssumption DEF Rows
<1> HIDE DEF new
<1>3. NextPk(domainsaudit) \in 1..MaxPk /\ \A a \in domainsaudit : a.pk < NextPk(domainsaudit)
  BY <1>1 DEF Room, NextPk
<1>4. ASSUME NEW d \in changed
      PROVE  /\ domains[d] \in Domain
             /\ pk(d) \in 1..MaxPk
             /\ \A a \in domainsaudit : a.pk < pk(d)
  <2>1. domains[d] \in Domain
    BY <1>1, <1>2 DEF Rows
  <2>2. Cardinality({e \in changed : e < d}) \in Nat
    <3>1. changed \in SUBSET DomainId
      OBVIOUS
    <3> HIDE DEF changed
    <3> QED BY <3>1, RankType
  <2>3. entry(d) \in entries
    OBVIOUS
  <2>4. entry(d).pk <= MaxPk
    <3> HIDE DEF entries, entry
    <3> QED BY <1>1, <2>3
  <2>5. pk(d) \in 1..MaxPk
    <3> DEFINE c == Cardinality({e \in changed : e < d})
    <3>1. NextPk(domainsaudit) + c <= MaxPk
      BY <2>4
    <3> HIDE DEF c
    <3>2. NextPk(domainsaudit) + c \in 1..MaxPk
      BY <1>3, <2>2, <3>1, MaxPkAssumption DEF c
    <3> QED BY <3>2 DEF c
  <2>6. \A a \in domainsaudit : a.pk \in Nat
    BY MaxPkAssumption DEF IInv, TypeOK, Entries
  <2>7. \A a \in domainsaudit : a.pk < pk(d)
    <3> DEFINE c == Cardinality({e \in changed : e < d})
    <3> HIDE DEF c
    <3>1. \A a \in domainsaudit : a.pk < NextPk(domainsaudit) + c
      BY <1>3, <2>2, <2>6, MaxPkAssumption DEF c
    <3> QED BY <3>1 DEF c
  <2> QED BY <2>1, <2>5, <2>7
<1>5. ASSUME NEW d \in changed, NEW e \in changed, pk(d) = pk(e) PROVE d = e
  <2> DEFINE c(i) == Cardinality({k \in changed : k < i})
  <2>1. \A i \in changed : c(i) \in Nat
    <3>1. changed \in SUBSET DomainId
      OBVIOUS
    <3> HIDE DEF changed
    <3> QED BY <3>1, RankType
  <2>2. NextPk(domainsaudit) + c(d) = NextPk(domainsaudit) + c(e)
    BY <1>5
  <2> HIDE DEF c
  <2>3. c(d) = c(e)
    BY <1>3, <2>1, <2>2, MaxPkAssumption
  <2>4. changed \in SUBSET DomainId
    OBVIOUS
  <2> HIDE DEF changed
  <2> QED BY <2>3, <2>4, RanksDiffer DEF c
<1> HIDE DEF pk
<1>6. entries \in SUBSET Entries(DomainId, Domain)
  BY <1>1, <1>4 DEF Entries
<1>7. \A e \in entries : domains[e.id] # Null /\ e.op = head /\ e.row = domains[e.id]
  BY <1>4, NullRowAssumption
<1>8. \A e \in entries : \A a \in domainsaudit : a.pk < e.pk
  BY <1>4
<1>9. \A e, f \in entries : e.pk = f.pk \/ e.id = f.id => e = f
  BY <1>5
<1>10. \A d \in DomainId : \/ new[d] = domains[d]
                           \/ /\ domains[d] # Null /\ new[d] # Null
                              /\ new[d].fk_block_number \in 1..head
                              /\ \E e \in entries : e.id = d
  <2>1. ASSUME NEW d \in DomainId, new[d] # domains[d]
        PROVE  /\ domains[d] # Null /\ new[d] # Null
               /\ new[d].fk_block_number \in 1..head
    BY <1>1, <1>2, <2>1 DEF IInv, DomainsTable, Table, Sound, Rows
  <2>2. ASSUME NEW d \in DomainId, new[d] # domains[d] PROVE \E e \in entries : e.id = d
    <3>1. entry(d) \in entries /\ entry(d).id = d
      BY <2>2
    <3> QED BY <3>1
  <2> HIDE DEF entries
  <2> QED BY <2>1, <2>2
<1> HIDE DEF entries
<1>11. Table(DomainId, Domain, new, domainsaudit \cup entries, DomainsOpened, head)
  BY <1>1, <1>2, <1>6, <1>7, <1>8, <1>9, <1>10, UpdatesKeepTable DEF IInv, DomainsTable
<1>12. DomainsTable'
  BY <1>1, <1>11 DEF DomainsTable, DomainsOpened
<1> QED BY <1>1, <1>2, <1>12, DomainCallIInv

-----------------------------------------------------------------------------
(* Handles: a call writes one, with a domain of its name.                  *)
LEMMA HandleCallIInv ==
  ASSUME IInv, HandleCall, HandlesTable', NEW h \in Handle,
         \A g \in Handle : g # h => handles'[g] = handles[g],
         handles'[h] # Null, InDomain(domains, h, handles'[h]),
         \A a \in handlesaudit' \ handlesaudit :
            handles[h] # Null /\ a.id = h /\ a.op = head /\ a.row = handles[h]
  PROVE  IInv'
<1> USE DEF IInv
<1>1. UNCHANGED <<head, domains, domainsaudit, activities, opened>> /\ head \in Nat
  BY DEF HandleCall, TypeOK
<1>2. TypeOK'
  BY <1>1 DEF TypeOK, HandlesTable, Table
<1>3. DomainsTable'
  BY <1>1 DEF DomainsTable, DomainsOpened
<1>4. Linked'
  <2>1. \A g \in Handle : handles'[g] # Null => InDomain(domains, g, handles'[g])
    BY DEF Linked
  <2>2. ASSUME NEW a \in handlesaudit'
        PROVE  /\ InDomain(domains, a.id, a.row)
               /\ \A b \in 1..head : a.op < b => InDomain(opened[b][1], a.id, a.row)
    <3>1. CASE a \in handlesaudit
      BY <3>1 DEF Linked
    <3>2. CASE a \notin handlesaudit
      <4>1. handles[h] # Null /\ a.id = h /\ a.op = head /\ a.row = handles[h]
        BY <3>2
      <4>2. InDomain(domains, h, handles[h])
        BY <4>1 DEF Linked
      <4> HIDE DEF IInv
      <4> QED BY <1>1, <4>1, <4>2
    <3> QED BY <3>1, <3>2
  <2>3. \A b \in 1..head : \A g \in Handle :
          opened[b][2][g] # Null => InDomain(opened[b][1], g, opened[b][2][g])
    BY DEF Linked
  <2> HIDE DEF IInv
  <2> QED BY <1>1, <2>1, <2>2, <2>3 DEF Linked, InDomain
<1>5. \A g \in Handle : handles[g] # Null => handles'[g] # Null
  OBVIOUS
<1>6. Referred'
  BY <1>1, <1>5 DEF Referred, DomainHeld, HandleHeld
<1> QED BY <1>2, <1>3, <1>4, <1>6

(* An update of a handle that is there.                                    *)
LEMMA UpdateHandleIInv ==
  ASSUME IInv, HandleCall, NEW h \in Handle, handles[h] # Null,
         NEW row \in HandleRow, UpdateHandle(h, row),
         row.fk_block_number = head, InDomain(domains, h, row)
  PROVE  IInv'
<1>1. /\ head > 0 /\ head \in Nat /\ handles \in Rows(Handle, HandleRow)
      /\ UNCHANGED <<head, opened>>
      /\ Room(handlesaudit) /\ handles' = [handles EXCEPT ![h] = row]
      /\ handlesaudit' = Logged(handles, handlesaudit, h, row, head)
  BY DEF HandleCall, UpdateHandle, IInv, TypeOK
<1>2. row.fk_block_number \in 1..head
  BY <1>1
<1>3. Table(Handle, HandleRow, [handles EXCEPT ![h] = row],
            Logged(handles, handlesaudit, h, row, head), HandlesOpened, head)
  BY <1>1, <1>2, UpdateKeepsTable DEF IInv, HandlesTable
<1>4. HandlesTable'
  BY <1>1, <1>3 DEF HandlesTable, HandlesOpened
<1>5. /\ handles'[h] = row /\ row # Null
      /\ \A g \in Handle : g # h => handles'[g] = handles[g]
  BY <1>1, NullRowAssumption DEF Rows
<1>6. \A a \in handlesaudit' \ handlesaudit :
         a.id = h /\ a.op = head /\ a.row = handles[h]
  BY <1>1 DEF Logged
<1> QED BY <1>4, <1>5, <1>6, HandleCallIInv

LEMMA InsUpdHandlesIInv ==
  ASSUME IInv, NEW h \in Handle, NEW o \in Owner, NEW k \in Key, NEW i \in Flag,
         NEW t \in Stamp, InsUpdHandles(h, o, k, i, t, "active")
  PROVE  IInv'
<1> DEFINE row(d) == [fk_block_number |-> head, fk_domain_id |-> d,
                      fk_owner_account_id |-> o, encryption_key |-> k,
                      is_encrypt_key_set |-> i, expiration_stamp |-> t,
                      handle_status |-> "active"]
<1>1. PICK d \in DomainFound(DomainOf[h]) :
        IF handles[h] = Null
        THEN handles' = [handles EXCEPT ![h] = row(d)] /\ UNCHANGED handlesaudit
        ELSE UpdateHandle(h, row(d))
  BY DEF InsUpdHandles
<1>2. /\ HandleCall /\ head > 0 /\ head \in Nat /\ handles \in Rows(Handle, HandleRow)
      /\ UNCHANGED <<head, opened>>
  BY DEF InsUpdHandles, HandleCall, IInv, TypeOK
<1> DEFINE r == row(d)
<1>3. d \in DomainId \cup {Null} /\ (d # Null => d \in Named(DomainOf[h]))
  BY DEF DomainFound, Named
<1>4. r \in HandleRow /\ r.fk_block_number = head
  BY <1>2, <1>3, NamesAssumption DEF HandleRow, Status
<1>5. InDomain(domains, h, r)
  BY <1>3 DEF InDomain, Named
<1> HIDE DEF r
<1>6. CASE handles[h] = Null
  <2>1. handles' = [handles EXCEPT ![h] = r] /\ UNCHANGED handlesaudit
    BY <1>1, <1>6 DEF r
  <2>2. handles' \in Rows(Handle, HandleRow)
    BY <2>1, <1>2, <1>4 DEF Rows
  <2>3. /\ handles'[h] = r /\ r # Null
        /\ \A g \in Handle : g # h => handles'[g] = handles[g]
    BY <2>1, <1>2, <1>4, NullRowAssumption DEF Rows
  <2>4. \A g \in Handle : \/ handles'[g] = handles[g]
                          \/ /\ handles[g] = Null /\ handles'[g] \in HandleRow
                             /\ handles'[g].fk_block_number = head
    BY <2>3, <1>4, <1>6
  <2>5. Table(Handle, HandleRow, handles', handlesaudit, HandlesOpened, head)
    BY <2>2, <2>4, <1>2, InsertKeepsTable DEF IInv, HandlesTable
  <2>6. HandlesTable'
    BY <2>1, <2>5, <1>2 DEF HandlesTable, HandlesOpened
  <2>7. handles'[h] # Null /\ InDomain(domains, h, handles'[h])
    BY <2>3, <1>5
  <2> QED BY <2>1, <2>3, <2>6, <2>7, <1>2, HandleCallIInv
<1>7. CASE handles[h] # Null
  BY <1>1, <1>2, <1>4, <1>5, <1>7, UpdateHandleIInv DEF r
<1> QED BY <1>6, <1>7

(* The updates that leave the domain alone.                                *)
LEMMA HandleInPlaceIInv ==
  ASSUME IInv, HandleCall, NEW h \in Handle, handles[h] # Null,
         NEW o \in Owner \cup {Null}, NEW k \in Key \cup {NoKey}, NEW i \in BOOLEAN,
         NEW s \in Status,
         UpdateHandle(h, [handles[h] EXCEPT
           !.fk_block_number = head, !.fk_owner_account_id = o, !.encryption_key = k,
           !.is_encrypt_key_set = i, !.handle_status = s])
  PROVE  IInv'
<1> DEFINE row == [handles[h] EXCEPT
                     !.fk_block_number = head, !.fk_owner_account_id = o,
                     !.encryption_key = k, !.is_encrypt_key_set = i, !.handle_status = s]
<1>1. handles[h] \in HandleRow /\ head \in Nat
  BY TypesOfTables DEF IInv
<1>2. /\ row \in HandleRow /\ row.fk_block_number = head
      /\ row.fk_domain_id = handles[h].fk_domain_id
  BY <1>1 DEF HandleRow
<1>3. UpdateHandle(h, row)
  OBVIOUS
<1> HIDE DEF row
<1>4. InDomain(domains, h, row)
  BY <1>2 DEF IInv, Linked, InDomain
<1> QED BY <1>2, <1>3, <1>4, UpdateHandleIInv

LEMMA HandleUpdatesIInv ==
  ASSUME IInv, NEW h \in Handle,
         \/ UpdHandleBurnt(h)
         \/ \E k \in Key : UpdHandlesEncryptKey(h, k) \/ UpdHandlesSetEncryptKey(h, k)
         \/ \E s \in Status : UpdHandlesStatus(h, s)
         \/ \E o \in Owner, k \in Key, i \in Flag : UpdHandlesXferOwner(h, o, k, i)
  PROVE  IInv'
<1> DEFINE row == handles[h]
           Put(o, k, i, s) ==
             UpdateHandle(h, [row EXCEPT
               !.fk_block_number = head, !.fk_owner_account_id = o, !.encryption_key = k,
               !.is_encrypt_key_set = i, !.handle_status = s])
<1>1. HandleCall /\ row # Null
  BY DEF UpdHandleBurnt, UpdHandlesEncryptKey, UpdHandlesSetEncryptKey, UpdHandlesStatus,
         UpdHandlesXferOwner
<1>2. row \in HandleRow
  BY <1>1, TypesOfTables DEF IInv
<1>3. ASSUME NEW o \in Owner \cup {Null}, NEW k \in Key \cup {NoKey}, NEW i \in BOOLEAN,
             NEW s \in Status, Put(o, k, i, s)
      PROVE  IInv'
  BY <1>1, <1>3, HandleInPlaceIInv
<1>4. /\ row.fk_owner_account_id \in Owner \cup {Null}
      /\ row.encryption_key \in Key \cup {NoKey}
      /\ row.is_encrypt_key_set \in BOOLEAN /\ row.handle_status \in Status
  BY <1>2 DEF HandleRow
<1>5. CASE UpdHandleBurnt(h)
  <2>1. Put(Null, NoKey, FALSE, "burnt")
    BY <1>5 DEF UpdHandleBurnt
  <2> QED BY <2>1, <1>3 DEF Status
<1>6. ASSUME NEW k \in Key, UpdHandlesEncryptKey(h, k) PROVE IInv'
  <2>1. [row EXCEPT !.fk_block_number = head, !.encryption_key = k]
        = [row EXCEPT !.fk_block_number = head,
                      !.fk_owner_account_id = row.fk_owner_account_id,
                      !.encryption_key = k, !.is_encrypt_key_set = row.is_encrypt_key_set,
                      !.handle_status = row.handle_status]
    BY <1>2 DEF HandleRow
  <2>2. Put(row.fk_owner_account_id, k, row.is_encrypt_key_set, row.handle_status)
    BY <1>6, <2>1 DEF UpdHandlesEncryptKey
  <2> HIDE DEF row, Put
  <2> QED BY <2>2, <1>3, <1>4
<1>7. ASSUME NEW k \in Key, UpdHandlesSetEncryptKey(h, k) PROVE IInv'
  <2>1. [row EXCEPT !.fk_block_number = head, !.encryption_key = k,
                    !.is_encrypt_key_set = TRUE]
        = [row EXCEPT !.fk_block_number = head,
                      !.fk_owner_account_id = row.fk_owner_account_id,
                      !.encryption_key = k, !.is_encrypt_key_set = TRUE,
                      !.handle_status = row.handle_status]
    BY <1>2 DEF HandleRow
  <2>2. Put(row.fk_owner_account_id, k, TRUE, row.handle_status)
    BY <1>7, <2>1 DEF UpdHandlesSetEncryptKey
  <2> HIDE DEF row, Put
  <2> QED BY <2>2, <1>3, <1>4
<1>8. ASSUME NEW s \in Status, UpdHandlesStatus(h, s) PROVE IInv'
  <2>1. [row EXCEPT !.fk_block_number = head, !.handle_status = s]
        = [row EXCEPT !.fk_block_number = head,
                      !.fk_owner_account_id = row.fk_owner_account_id,
                      !.encryption_key = row.encryption_key,
                      !.is_encrypt_key_set = row.is_encrypt_key_set,
                      !.handle_status = s]
    BY <1>2 DEF HandleRow
  <2>2. Put(row.fk_owner_account_id, row.encryption_key, row.is_encrypt_key_set, s)
    BY <1>8, <2>1 DEF UpdHandlesStatus
  <2> HIDE DEF row, Put
  <2> QED BY <2>2, <1>3, <1>4
<1>9. ASSUME NEW o \in Owner, NEW k \in Key, NEW i \in Flag,
             UpdHandlesXferOwner(h, o, k, i)
      PROVE  IInv'
  <2>1. [row EXCEPT !.fk_block_number = head, !.fk_owner_account_id = o,
                    !.encryption_key = k, !.is_encrypt_key_set = i]
        = [row EXCEPT !.fk_block_number = head, !.fk_owner_account_id = o,
                      !.encryption_key = k, !.is_encrypt_key_set = i,
                      !.handle_status = row.handle_status]
    BY <1>2 DEF HandleRow
  <2>2. Put(o, k, i, row.handle_status)
    BY <1>9, <2>1 DEF UpdHandlesXferOwner
  <2>3. i \in BOOLEAN
    BY NamesAssumption
  <2> HIDE DEF row, Put
  <2> QED BY <2>2, <2>3, <1>3, <1>4
<1> QED BY <1>5, <1>6, <1>7, <1>8, <1>9

-----------------------------------------------------------------------------
(* Activities.                                                             *)
LEMMA InsActivityIInv ==
  ASSUME IInv, NEW row, InsActivity(row), row.fk_block_number = head,
         row \in [table : {"domainactivities"}, fk_block_number : Nat,
                  ref : DomainId \cup {Null}, expiration_stamp : Stamp \cup {Null}]
              \cup [table : {"handleactivities"}, fk_block_number : Nat,
                    ref : Handle \cup {Null}]
              \cup [table : {"accountactivities"}, fk_block_number : Nat,
                    ref : Owner \cup {Null}],
         row.table = "domainactivities" /\ row.ref # Null =>
            row.ref \in DomainId /\ domains[row.ref] # Null,
         row.table = "handleactivities" /\ row.ref # Null =>
            row.ref \in Handle /\ handles[row.ref] # Null
  PROVE  IInv'
<1> USE DEF IInv
<1>1. /\ head > 0 /\ head \in Nat /\ activities' = activities \cup {row}
      /\ UNCHANGED <<head, domains, domainsaudit, handles, handlesaudit, opened>>
  BY DEF InsActivity, TypeOK
<1>2. TypeOK'
  BY <1>1 DEF TypeOK
<1>3. DomainsTable' /\ HandlesTable'
  BY <1>1 DEF DomainsTable, DomainsOpened, HandlesTable, HandlesOpened
<1>4. Linked'
  BY <1>1 DEF Linked, InDomain
<1>5. Referred'
  <2> SUFFICES ASSUME NEW r \in activities'
               PROVE  /\ r.fk_block_number \in 1..head
                      /\ r.ref # Null /\ r.table = "domainactivities" =>
                           r.ref \in DomainId /\ DomainHeld(r.ref, r.fk_block_number)
                      /\ r.ref # Null /\ r.table = "handleactivities" =>
                           r.ref \in Handle /\ HandleHeld(r.ref, r.fk_block_number)
    BY <1>1 DEF Referred, DomainHeld, HandleHeld
  <2>1. CASE r \in activities
    BY <2>1 DEF Referred
  <2>2. CASE r = row
    BY <2>2, <1>1 DEF DomainHeld, HandleHeld
  <2> QED BY <1>1, <2>1, <2>2
<1> QED BY <1>2, <1>3, <1>4, <1>5

LEMMA ActivitiesIInv ==
  ASSUME IInv,
         \/ \E n \in DomainName : InsDomainActivities(n)
         \/ \E h \in Handle : InsHandleActivities(h) \/ InsAccountActivitiesHandle(h)
  PROVE  IInv'
<1>1. head \in Nat
  BY DEF IInv, TypeOK
<1>2. ASSUME NEW n \in DomainName, InsDomainActivities(n) PROVE IInv'
  <2> DEFINE row(d) == [table |-> "domainactivities", fk_block_number |-> head, ref |-> d,
                        expiration_stamp |->
                          IF d = Null THEN Null ELSE domains[d].expiration_timestamp]
  <2>1. PICK d \in DomainFound(n) : InsActivity(row(d))
    BY <1>2 DEF InsDomainActivities
  <2>2. d = Null \/ (d \in DomainId /\ domains[d] # Null)
    BY DEF DomainFound, Named
  <2>3. d # Null => domains[d].expiration_timestamp \in Stamp
    BY <2>2, TypesOfTables DEF IInv, Domain
  <2> DEFINE e == IF d = Null THEN Null ELSE domains[d].expiration_timestamp
  <2>4. e \in Stamp \cup {Null}
    BY <2>3
  <2>5. row(d) = [table |-> "domainactivities", fk_block_number |-> head, ref |-> d,
                  expiration_stamp |-> e]
    OBVIOUS
  <2> HIDE DEF e, row
  <2> QED BY <1>1, <2>1, <2>2, <2>4, <2>5, InsActivityIInv
<1>3. ASSUME NEW h \in Handle, InsHandleActivities(h) PROVE IInv'
  <2> DEFINE ref == IF handles[h] = Null THEN Null ELSE h
             row == [table |-> "handleactivities", fk_block_number |-> head, ref |-> ref]
  <2>1. InsActivity(row)
    BY <1>3 DEF InsHandleActivities
  <2>2. ref = Null \/ (ref \in Handle /\ handles[ref] # Null)
    OBVIOUS
  <2> HIDE DEF ref
  <2> QED BY <1>1, <2>1, <2>2, InsActivityIInv
<1>4. ASSUME NEW h \in Handle, InsAccountActivitiesHandle(h) PROVE IInv'
  <2> DEFINE ref == IF handles[h] = Null THEN Null ELSE handles[h].fk_owner_account_id
             row == [table |-> "accountactivities", fk_block_number |-> head, ref |-> ref]
  <2>1. InsActivity(row)
    BY <1>4 DEF InsAccountActivitiesHandle
  <2>2. ref \in Owner \cup {Null}
    BY TypesOfTables DEF IInv, HandleRow
  <2> HIDE DEF ref
  <2> QED BY <1>1, <2>1, <2>2, InsActivityIInv
<1> QED BY <1>2, <1>3, <1>4

-----------------------------------------------------------------------------
(* What a fork leaves of each table.                                       *)
LEMMA ForkLeaves ==
  ASSUME IInv, NEW b \in 1..head
  PROVE  /\ DomainsAfter(b) = opened[b][1]
         /\ HandlesAfter(b) = opened[b][2]
         /\ DomainsLogAfter(b) = {a \in domainsaudit : a.op < b}
         /\ HandlesLogAfter(b) = {a \in handlesaudit : a.op < b}
<1>1. DomainsTable /\ HandlesTable
  BY DEF IInv
<1>2. DomainsAfter(b) = opened[b][1] /\ HandlesAfter(b) = opened[b][2]
  BY <1>1 DEF DomainsTable, HandlesTable, Table, Exact, DomainsOpened, HandlesOpened,
              DomainsAfter, HandlesAfter
<1>3. DomainsLogAfter(b) = {a \in domainsaudit : a.op < b}
  BY <1>1, ForkKeepsOldEntries DEF DomainsTable, DomainsLogAfter
<1>4. HandlesLogAfter(b) = {a \in handlesaudit : a.op < b}
  BY <1>1, ForkKeepsOldEntries DEF HandlesTable, HandlesLogAfter
<1> QED BY <1>2, <1>3, <1>4

LEMMA ForksArePossible == IInv => ForkPossible
<1> SUFFICES ASSUME IInv, NEW b \in 1..head PROVE ForeignKeysHold(b)
  BY DEF ForkPossible
<1>1. ASSUME NEW h \in HandleRefs(b), h # Null PROVE HandlesAfter(b)[h] # Null
  <2>1. CASE \E a \in activities : /\ a.fk_block_number < b /\ a.table = "handleactivities"
                                   /\ h = a.ref
    BY <1>1, <2>1, ForkLeaves DEF IInv, Referred, HandleHeld
  <2>2. CASE \E a \in HandlesLogAfter(b) : h = a.id
    <3>1. \A a \in handlesaudit : a.op < b => HandlesOpened[b][a.id] # Null
      BY DEF IInv, HandlesTable, Table, Sound
    <3> QED BY <2>2, <3>1, ForkLeaves DEF HandlesOpened
  <2> QED BY <1>1, <2>1, <2>2 DEF HandleRefs, ActivitiesAfter
<1>2. ASSUME NEW d \in DomainRefs(b), d # Null PROVE DomainsAfter(b)[d] # Null
  <2>1. CASE \E a \in activities : /\ a.fk_block_number < b /\ a.table = "domainactivities"
                                   /\ d = a.ref
    BY <1>2, <2>1, ForkLeaves DEF IInv, Referred, DomainHeld
  <2>2. CASE \E a \in DomainsLogAfter(b) : d = a.id
    <3>1. \A a \in domainsaudit : a.op < b => DomainsOpened[b][a.id] # Null
      BY DEF IInv, DomainsTable, Table, Sound
    <3> QED BY <2>2, <3>1, ForkLeaves DEF DomainsOpened
  <2>3. CASE \E h \in Handle : HandlesAfter(b)[h] # Null /\ d = HandlesAfter(b)[h].fk_domain_id
    BY <1>2, <2>3, ForkLeaves DEF IInv, Linked, InDomain
  <2>4. CASE \E a \in HandlesLogAfter(b) : d = a.row.fk_domain_id
    BY <1>2, <2>4, ForkLeaves DEF IInv, Linked, InDomain
  <2> QED BY <1>2, <2>1, <2>2, <2>3, <2>4 DEF DomainRefs, ActivitiesAfter
<1> QED BY <1>1, <1>2 DEF ForeignKeysHold

LEMMA RbForkIInv ==
  ASSUME IInv, NEW b \in 1..head, RbFork(b)
  PROVE  IInv' /\ domains' = opened[b][1] /\ handles' = opened[b][2]
<1>1. /\ domains' = DomainsAfter(b) /\ domainsaudit' = DomainsLogAfter(b)
      /\ handles' = HandlesAfter(b) /\ handlesaudit' = HandlesLogAfter(b)
      /\ activities' = ActivitiesAfter(b)
      /\ head' = b - 1 /\ opened' = [c \in 1..(b - 1) |-> opened[c]]
  BY DEF RbFork
<1>2. /\ domains' = opened[b][1] /\ handles' = opened[b][2]
      /\ domainsaudit' = {a \in domainsaudit : a.op < b}
      /\ handlesaudit' = {a \in handlesaudit : a.op < b}
  BY <1>1, ForkLeaves
<1>3. head \in Nat /\ b \in Nat /\ b <= head
  BY DEF IInv, TypeOK
<1>4. \A c \in 1..head' : c \in 1..head /\ c < b /\ opened'[c] = opened[c]
  BY <1>1, <1>3
<1>5. /\ DomainsOpened' = [c \in 1..(b - 1) |-> DomainsOpened[c]]
      /\ HandlesOpened' = [c \in 1..(b - 1) |-> HandlesOpened[c]]
  BY <1>1, <1>3 DEF DomainsOpened, HandlesOpened
<1>6. DomainsTable'
  <2>1. Table(DomainId, Domain, DomainsAfter(b), DomainsLogAfter(b),
              [c \in 1..(b - 1) |-> DomainsOpened[c]], b - 1)
    BY ForkKeepsTable DEF IInv, DomainsTable, DomainsAfter, DomainsLogAfter
  <2> QED BY <2>1, <1>1, <1>5 DEF DomainsTable
<1>7. HandlesTable'
  <2>1. Table(Handle, HandleRow, HandlesAfter(b), HandlesLogAfter(b),
              [c \in 1..(b - 1) |-> HandlesOpened[c]], b - 1)
    BY ForkKeepsTable DEF IInv, HandlesTable, HandlesAfter, HandlesLogAfter
  <2> QED BY <2>1, <1>1, <1>5 DEF HandlesTable
<1>8. TypeOK'
  <2>1. head' \in 0..MaxBlock
    BY <1>1, <1>3, NamesAssumption DEF IInv, TypeOK
  <2>2. opened' \in [1..head' -> Rows(DomainId, Domain) \X Rows(Handle, HandleRow)]
    BY <1>1, <1>3 DEF IInv, TypeOK
  <2> QED BY <2>1, <2>2, <1>1, <1>6, <1>7
          DEF IInv, TypeOK, DomainsTable, HandlesTable, Table, ActivitiesAfter
<1>9. Linked'
  <2>1. \A h \in Handle : handles'[h] # Null => InDomain(domains', h, handles'[h])
    BY <1>2 DEF IInv, Linked
  <2>2. \A c \in 1..head' : \A h \in Handle :
          opened'[c][2][h] # Null => InDomain(opened'[c][1], h, opened'[c][2][h])
    BY <1>4 DEF IInv, Linked
  <2>3. ASSUME NEW a \in handlesaudit'
        PROVE  /\ InDomain(domains', a.id, a.row)
               /\ \A c \in 1..head' : a.op < c => InDomain(opened'[c][1], a.id, a.row)
    BY <1>2, <1>4 DEF IInv, Linked
  <2> QED BY <2>1, <2>2, <2>3 DEF Linked, InDomain
<1>10. Referred'
  <2> SUFFICES ASSUME NEW r \in activities'
               PROVE  /\ r.fk_block_number \in 1..head'
                      /\ r.ref # Null /\ r.table = "domainactivities" =>
                           r.ref \in DomainId /\ DomainHeld(r.ref, r.fk_block_number)'
                      /\ r.ref # Null /\ r.table = "handleactivities" =>
                           r.ref \in Handle /\ HandleHeld(r.ref, r.fk_block_number)'
    BY DEF Referred, DomainHeld, HandleHeld
  <2>1. r \in activities /\ r.fk_block_number < b
    BY <1>1 DEF ActivitiesAfter
  <2>2. r.fk_block_number \in 1..head'
    BY <1>1, <1>3, <2>1 DEF IInv, Referred
  <2>3. ASSUME NEW d, DomainHeld(d, r.fk_block_number)
        PROVE  domains'[d] # Null
               /\ \A c \in 1..head' : r.fk_block_number < c => opened'[c][1][d] # Null
    BY <1>2, <1>4, <2>1, <2>3 DEF DomainHeld
  <2>4. ASSUME NEW h, HandleHeld(h, r.fk_block_number)
        PROVE  handles'[h] # Null
               /\ \A c \in 1..head' : r.fk_block_number < c => opened'[c][2][h] # Null
    BY <1>2, <1>4, <2>1, <2>4 DEF HandleHeld
  <2> QED BY <2>1, <2>2, <2>3, <2>4 DEF IInv, Referred, DomainHeld, HandleHeld
<1> QED BY <1>2, <1>6, <1>7, <1>8, <1>9, <1>10 DEF IInv

-----------------------------------------------------------------------------
LEMMA NextIInv == IInv /\ [Next]_vars => IInv'
<1> SUFFICES ASSUME IInv, [Next]_vars PROVE IInv'
  OBVIOUS
<1>1. CASE UNCHANGED vars
  BY <1>1 DEF vars, IInv, TypeOK, DomainsTable, DomainsOpened, HandlesTable, HandlesOpened,
              Linked, InDomain, Referred, DomainHeld, HandleHeld
<1>2. CASE InsBlocks
  BY <1>2, InsBlocksIInv
<1>3. CASE DomainNext
  BY <1>3, InsDomainsIInv, UpdDomainExpIInv, UpdDomainIsPublicIInv, UpdDomainOwnerIInv,
     UpdDomainBurntIInv, ActivitiesIInv DEF DomainNext
<1>4. CASE HandleNext
  BY <1>4, InsUpdHandlesIInv, HandleUpdatesIInv, ActivitiesIInv DEF HandleNext
<1>5. ASSUME NEW b \in 1..head, RbFork(b) PROVE IInv'
  BY <1>5, RbForkIInv
<1> QED BY <1>1, <1>2, <1>3, <1>4, <1>5 DEF Next

LEMMA Invariance == Spec => []IInv
BY InitIInv, NextIInv, PTL DEF Spec

(* Domains, handles and their audit tables always hold rows of their types. *)
THEOREM NamesTypeCorrect == Spec => []TypeOK
<1>1. IInv => TypeOK
  BY DEF IInv
<1> QED BY <1>1, Invariance, PTL

(* The deletes of a fork never break a foreign key between handles,        *)
(* domains and their activities.                                           *)
THEOREM NamesForkIsPossible == Spec => []ForkPossible
BY ForksArePossible, Invariance, PTL

(* A handle, and each version of it that a fork may bring back, belongs to *)
(* a registration of the domain in its name.                               *)
THEOREM HandlesStayInDomain == Spec => []HandlesInDomain
<1>1. IInv => HandlesInDomain
  BY DEF IInv, Linked, InDomain, HandlesInDomain
<1> QED BY <1>1, Invariance, PTL

LEMMA StepImplementsStore == IInv /\ [Next]_vars => [Store!Next]_(Store!vars)
<1> SUFFICES ASSUME IInv, [Next]_vars PROVE [Store!Next]_(Store!vars)
  OBVIOUS
<1> USE DEF Store!vars
<1>1. IInv'
  BY NextIInv
<1>2. /\ domains' \in Rows(DomainId, Domain) /\ handles' \in Rows(Handle, HandleRow)
      /\ head \in Nat
  BY <1>1 DEF IInv, TypeOK
<1>3. ASSUME UNCHANGED <<head, opened>>, head > 0 PROVE Store!Next
  BY <1>2, <1>3 DEF Store!Next, Store!Change
<1>4. CASE UNCHANGED vars
  BY <1>4 DEF vars
<1>5. CASE InsBlocks
  BY <1>5 DEF InsBlocks, Store!Next, Store!NewBlock
<1>6. CASE DomainNext
  BY <1>3, <1>6 DEF DomainNext, InsDomains, UpdDomainExp, UpdDomainIsPublic, UpdDomainOwner,
                    UpdDomainBurnt, DomainCall, InsDomainActivities, InsActivity
<1>7. CASE HandleNext
  BY <1>3, <1>7 DEF HandleNext, InsUpdHandles, UpdHandleBurnt, UpdHandlesEncryptKey,
                    UpdHandlesSetEncryptKey, UpdHandlesStatus, UpdHandlesXferOwner, HandleCall,
                    InsHandleActivities, InsAccountActivitiesHandle, InsActivity
<1>8. ASSUME NEW b \in 1..head, RbFork(b) PROVE Store!Next
  <2>1. domains' = opened[b][1] /\ handles' = opened[b][2]
    BY <1>8, RbForkIInv
  <2>2. opened[b] = <<opened[b][1], opened[b][2]>>
    BY TypesOfTables DEF IInv
  <2> QED BY <1>8, <2>1, <2>2 DEF RbFork, Store!Next, Store!Fork
<1> QED BY <1>4, <1>5, <1>6, <1>7, <1>8 DEF Next

(* The handles and the domains are, together, a store that a fork puts     *)
(* back.                                                                   *)
THEOREM NamesImplementStore == Spec => ImplementsStore
<1>1. Init => Store!Init
  BY DEF Init, Store!Init, Rows
<1> QED BY <1>1, StepImplementsStore, Invariance, PTL DEF Spec, ImplementsStore, Store!Spec
=============================================================================
