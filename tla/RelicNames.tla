----------------------------- MODULE RelicNames -----------------------------
(***************************************************************************)
(* Domains and handles of the relic database: the tables domains, handles, *)
(* their audit tables and the activity tables, the stored procedures that  *)
(* write them, and the part of rbfork that undoes them.                    *)
(*                                                                         *)
(* domain_name is not unique: every registration is a row of its own, and  *)
(* a procedure that looks a domain up takes any row of that name.  A       *)
(* handle has one row, which insupdhandles writes again.  The accounts are *)
(* those of RelicAccounts; here an account is what the SELECT on accounts  *)
(* found, Null if there is none.  A call that raises changes nothing.      *)
(***************************************************************************)
EXTENDS AuditLog, FiniteSets

CONSTANTS
  DomainName,      \* domain names
  Handle,          \* fio handles
  DomainOf,        \* the domain name in a handle
  Owner,           \* what the SELECT on accounts finds
  Flag,            \* the values is_public and is_encrypt_key_set are given
  Stamp,           \* expiration timestamps
  Key,             \* encryption keys
  MaxDomain,       \* bound on the rows of domains
  MaxBlock,        \* bound on the block numbers
  MaxActivity      \* bound on the rows of the activity tables

ASSUME NamesAssumption ==
  /\ DomainOf \in [Handle -> DomainName]
  /\ MaxDomain \in Nat /\ MaxBlock \in Nat /\ MaxActivity \in Nat
  /\ Flag \subseteq BOOLEAN
  /\ Null \notin Handle

NoKey == ""        \* the encryption key of a burnt handle
DomainId == 1..MaxDomain
Status == {"active", "burnt"}

Domain == [fk_block_number : Nat, domain_name : DomainName,
           fk_owner_account_id : Owner \cup {Null}, is_public : BOOLEAN,
           expiration_timestamp : Stamp, domain_status : Status]

HandleRow == [fk_block_number : Nat, fk_domain_id : DomainId \cup {Null},
              fk_owner_account_id : Owner \cup {Null}, encryption_key : Key \cup {NoKey},
              is_encrypt_key_set : BOOLEAN, expiration_stamp : Stamp,
              handle_status : Status]

ASSUME NullRowAssumption == Null \notin Domain \cup HandleRow \cup DomainId

VARIABLES
  head,            \* the newest block
  domains, domainsaudit,
  handles, handlesaudit,
  activities,      \* domainactivities, handleactivities, accountactivities
  opened           \* history: <<domains, handles>> when each block was opened

vars == <<head, domains, domainsaudit, handles, handlesaudit, activities, opened>>

TypeOK ==
  /\ head \in 0..MaxBlock
  /\ domains \in Rows(DomainId, Domain)
  /\ domainsaudit \subseteq Entries(DomainId, Domain)
  /\ handles \in Rows(Handle, HandleRow)
  /\ handlesaudit \subseteq Entries(Handle, HandleRow)
  /\ activities \subseteq
       [table : {"domainactivities"}, fk_block_number : Nat, ref : DomainId \cup {Null},
        expiration_stamp : Stamp \cup {Null}]
       \cup [table : {"handleactivities"}, fk_block_number : Nat, ref : Handle \cup {Null}]
       \cup [table : {"accountactivities"}, fk_block_number : Nat, ref : Owner \cup {Null}]
  /\ opened \in [1..head -> Rows(DomainId, Domain) \X Rows(Handle, HandleRow)]

-----------------------------------------------------------------------------
(* insblocks                                                               *)
InsBlocks ==
  /\ head < MaxBlock
  /\ head' = head + 1
  /\ opened' = [b \in 1..(head + 1) |->
                  IF b = head + 1 THEN <<domains, handles>> ELSE opened[b]]
  /\ UNCHANGED <<domains, domainsaudit, handles, handlesaudit, activities>>

-----------------------------------------------------------------------------
(* Domains.                                                                *)

Named(name) == {d \in DomainId : domains[d] # Null /\ domains[d].domain_name = name}

(* Mutation: the WHERE clause is missing.                                  *)
MutDomainFound(name) == {d \in DomainId : domains[d] # Null} \cup {Null}

(* SELECT pk_domain_id INTO ... WHERE domain_name = name: the first row of *)
(* an unordered result, NULL if it is empty.                               *)
DomainFound(name) == IF Named(name) = {} THEN {Null} ELSE Named(name)

(* UPDATE domains, with its trigger.                                       *)
UpdateDomain(d, row) ==
  /\ Room(domainsaudit)
  /\ domains' = [domains EXCEPT ![d] = row]
  /\ domainsaudit' = Logged(domains, domainsaudit, d, row, head)

DomainCall == head > 0 /\ UNCHANGED <<head, handles, handlesaudit, activities, opened>>

InsDomains(name, owner, ispublic, expiration, status) ==
  /\ DomainCall
  /\ \E d \in DomainId :
       /\ domains[d] = Null /\ \A e \in DomainId : e < d => domains[e] # Null
       /\ domains' = [domains EXCEPT ![d] =
            [fk_block_number |-> head, domain_name |-> name,
             fk_owner_account_id |-> owner, is_public |-> ispublic,
             expiration_timestamp |-> expiration, domain_status |-> status]]
  /\ UNCHANGED domainsaudit

UpdDomainExp(name, expiration) ==
  /\ DomainCall
  /\ \E d \in Named(name) :
       UpdateDomain(d, [domains[d] EXCEPT !.expiration_timestamp = expiration])

UpdDomainIsPublic(name, ispublic) ==
  /\ DomainCall
  /\ \E d \in Named(name) : UpdateDomain(d, [domains[d] EXCEPT !.is_public = ispublic])

UpdDomainOwner(name, owner) ==
  /\ DomainCall
  /\ \E d \in Named(name) :
       UpdateDomain(d, [domains[d] EXCEPT !.fk_owner_account_id = owner])

(* upddomainburnt updates every row of that name, burnt ones included.     *)
Burnt(name) ==
  [d \in DomainId |->
     IF d \in Named(name)
     THEN [domains[d] EXCEPT !.domain_status = "burnt", !.fk_owner_account_id = Null]
     ELSE domains[d]]

(* Mutation: the block of the row, not of the operation.                   *)
MutBurntLog(name) ==
  LET changed == {d \in DomainId : Burnt(name)[d] # domains[d]}
      rank(d) == Cardinality({e \in changed : e < d})
  IN domainsaudit \cup
       {[pk |-> NextPk(domainsaudit) + rank(d), id |-> d,
         op |-> domains[d].fk_block_number, row |-> domains[d]] : d \in changed}

(* Its trigger logs the rows that change, one after the other.             *)
BurntLog(name) ==
  LET changed == {d \in DomainId : Burnt(name)[d] # domains[d]}
      rank(d) == Cardinality({e \in changed : e < d})
  IN domainsaudit \cup
       {[pk |-> NextPk(domainsaudit) + rank(d), id |-> d, op |-> head,
         row |-> domains[d]] : d \in changed}

UpdDomainBurnt(name) ==
  /\ DomainCall
  /\ Room(domainsaudit) /\ \A a \in BurntLog(name) : a.pk <= MaxPk
  /\ domains' = Burnt(name)
  /\ domainsaudit' = BurntLog(name)

-----------------------------------------------------------------------------
(* Handles.  Every update stamps the row with the block of the call.       *)

UpdateHandle(h, row) ==
  /\ Room(handlesaudit)
  /\ handles' = [handles EXCEPT ![h] = row]
  /\ handlesaudit' = Logged(handles, handlesaudit, h, row, head)

HandleCall == head > 0 /\ UNCHANGED <<head, domains, domainsaudit, activities, opened>>

InsUpdHandles(h, owner, key, isset, expiration, status) ==
  /\ HandleCall
  /\ \E d \in DomainFound(DomainOf[h]) :
       LET row == [fk_block_number |-> head, fk_domain_id |-> d,
                   fk_owner_account_id |-> owner, encryption_key |-> key,
                   is_encrypt_key_set |-> isset, expiration_stamp |-> expiration,
                   handle_status |-> status]
       IN IF handles[h] = Null
          THEN handles' = [handles EXCEPT ![h] = row] /\ UNCHANGED handlesaudit
          ELSE UpdateHandle(h, row)

UpdHandleBurnt(h) ==
  /\ HandleCall
  /\ handles[h] # Null
  /\ UpdateHandle(h, [handles[h] EXCEPT
       !.fk_block_number = head, !.fk_owner_account_id = Null, !.encryption_key = NoKey,
       !.is_encrypt_key_set = FALSE, !.handle_status = "burnt"])

(* updhandlesencryptkey: not over a key that was set explicitly.           *)
UpdHandlesEncryptKey(h, key) ==
  /\ HandleCall
  /\ handles[h] # Null /\ ~handles[h].is_encrypt_key_set
  /\ UpdateHandle(h, [handles[h] EXCEPT !.fk_block_number = head, !.encryption_key = key])

UpdHandlesSetEncryptKey(h, key) ==
  /\ HandleCall
  /\ handles[h] # Null
  /\ UpdateHandle(h, [handles[h] EXCEPT
       !.fk_block_number = head, !.encryption_key = key, !.is_encrypt_key_set = TRUE])

UpdHandlesStatus(h, status) ==
  /\ HandleCall
  /\ handles[h] # Null
  /\ UpdateHandle(h, [handles[h] EXCEPT !.fk_block_number = head, !.handle_status = status])

UpdHandlesXferOwner(h, owner, key, isset) ==
  /\ HandleCall
  /\ handles[h] # Null
  /\ UpdateHandle(h, [handles[h] EXCEPT
       !.fk_block_number = head, !.fk_owner_account_id = owner,
       !.encryption_key = key, !.is_encrypt_key_set = isset])

-----------------------------------------------------------------------------
(* Activities: rows that are only added.                                   *)

InsActivity(row) ==
  /\ head > 0 /\ Cardinality(activities) < MaxActivity
  /\ activities' = activities \cup {row}
  /\ UNCHANGED <<head, domains, domainsaudit, handles, handlesaudit, opened>>

InsDomainActivities(name) ==
  \E d \in DomainFound(name) :
    InsActivity([table |-> "domainactivities", fk_block_number |-> head, ref |-> d,
                 expiration_stamp |->
                   IF d = Null THEN Null ELSE domains[d].expiration_timestamp])

InsHandleActivities(h) ==
  InsActivity([table |-> "handleactivities", fk_block_number |-> head,
               ref |-> IF handles[h] = Null THEN Null ELSE h])

(* insaccountactivitieshandle: for the account that owns the handle now.   *)
InsAccountActivitiesHandle(h) ==
  InsActivity([table |-> "accountactivities", fk_block_number |-> head,
               ref |-> IF handles[h] = Null THEN Null ELSE handles[h].fk_owner_account_id])

-----------------------------------------------------------------------------
(* rbfork, as far as these tables go.                                      *)

DomainsAfter(b) == RolledBack(domains, domainsaudit, b)
DomainsLogAfter(b) == RolledBackLog(domains, domainsaudit, b, head)
HandlesAfter(b) == RolledBack(handles, handlesaudit, b)
HandlesLogAfter(b) == RolledBackLog(handles, handlesaudit, b, head)

(* Mutation: the activities of the forked block itself stay.               *)
MutActivitiesAfter(b) == {a \in activities : a.fk_block_number <= b}

ActivitiesAfter(b) == {a \in activities : a.fk_block_number < b}

(* What refers to handles when they are deleted, and later to domains.     *)
HandleRefs(b) ==
  {a.ref : a \in {c \in ActivitiesAfter(b) : c.table = "handleactivities"}}
    \cup {a.id : a \in HandlesLogAfter(b)}

DomainRefs(b) ==
  {a.ref : a \in {c \in ActivitiesAfter(b) : c.table = "domainactivities"}}
    \cup {a.id : a \in DomainsLogAfter(b)}
    \cup {HandlesAfter(b)[h].fk_domain_id : h \in {g \in Handle : HandlesAfter(b)[g] # Null}}
    \cup {a.row.fk_domain_id : a \in HandlesLogAfter(b)}

ForeignKeysHold(b) ==
  /\ \A h \in HandleRefs(b) \ {Null} : HandlesAfter(b)[h] # Null
  /\ \A d \in DomainRefs(b) \ {Null} : DomainsAfter(b)[d] # Null

RbFork(b) ==
  /\ ForeignKeysHold(b)
  /\ handles' = HandlesAfter(b) /\ handlesaudit' = HandlesLogAfter(b)
  /\ domains' = DomainsAfter(b) /\ domainsaudit' = DomainsLogAfter(b)
  /\ activities' = ActivitiesAfter(b)
  /\ head' = b - 1
  /\ opened' = [c \in 1..(b - 1) |-> opened[c]]

-----------------------------------------------------------------------------
Init ==
  /\ head = 0
  /\ domains = [d \in DomainId |-> Null] /\ domainsaudit = {}
  /\ handles = [h \in Handle |-> Null] /\ handlesaudit = {}
  /\ activities = {}
  /\ opened = [b \in 1..0 |-> <<domains, handles>>]

DomainNext ==
  \/ \E n \in DomainName, o \in Owner, p \in Flag, t \in Stamp, s \in {"active"} :
       InsDomains(n, o, p, t, s)
  \/ \E n \in DomainName, t \in Stamp : UpdDomainExp(n, t)
  \/ \E n \in DomainName, p \in Flag : UpdDomainIsPublic(n, p)
  \/ \E n \in DomainName, o \in Owner : UpdDomainOwner(n, o)
  \/ \E n \in DomainName : UpdDomainBurnt(n)
  \/ \E n \in DomainName : InsDomainActivities(n)

HandleNext ==
  \/ \E h \in Handle, o \in Owner, k \in Key, i \in Flag, t \in Stamp, s \in {"active"} :
       InsUpdHandles(h, o, k, i, t, s)
  \/ \E h \in Handle : UpdHandleBurnt(h)
  \/ \E h \in Handle, k \in Key : UpdHandlesEncryptKey(h, k)
  \/ \E h \in Handle, k \in Key : UpdHandlesSetEncryptKey(h, k)
  \/ \E h \in Handle, s \in Status : UpdHandlesStatus(h, s)
  \/ \E h \in Handle, o \in Owner, k \in Key, i \in Flag : UpdHandlesXferOwner(h, o, k, i)
  \/ \E h \in Handle : InsHandleActivities(h)
  \/ \E h \in Handle : InsAccountActivitiesHandle(h)

Next ==
  \/ InsBlocks
  \/ DomainNext
  \/ HandleNext
  \/ \E b \in 1..head : RbFork(b)

Spec == Init /\ [][Next]_vars

-----------------------------------------------------------------------------
(***************************************************************************)
(* Properties.                                                             *)
(***************************************************************************)

(* The handles and the domains are, together, a store that rbfork puts     *)
(* back: rbhandles and rbdomains restore the version each row had when the *)
(* block was opened, whatever was registered, burnt, registered again or   *)
(* transferred since.                                                      *)
Store == INSTANCE ForkableStore WITH
           content <- <<domains, handles>>,
           Content <- Rows(DomainId, Domain) \X Rows(Handle, HandleRow)

ImplementsStore == Store!Spec

(* No fork is refused: what rbfork keeps never refers to a handle or to a  *)
(* domain it deletes, though handles carry the block of their last update, *)
(* domains that of their registration, and old versions of a handle may    *)
(* refer to another domain than the handle does now.                       *)
ForkPossible == \A b \in 1..head : ForeignKeysHold(b)

(* A handle and every recorded version of it belong to a registration of   *)
(* the domain in its name.  The link is an identity, which a fork must not *)
(* leave behind to meet another domain.                                    *)
HandlesInDomain ==
  LET InDomain(h, row) == row.fk_domain_id # Null =>
        /\ domains[row.fk_domain_id] # Null
        /\ domains[row.fk_domain_id].domain_name = DomainOf[h]
  IN /\ \A h \in Handle : handles[h] # Null => InDomain(h, handles[h])
     /\ \A a \in handlesaudit : InDomain(a.id, a.row)
=============================================================================
