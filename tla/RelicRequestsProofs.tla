------------------------- MODULE RelicRequestsProofs -------------------------
(***************************************************************************)
(* For any requests, handles, contents and bounds: requests keep their     *)
(* types, contents aside they are a store that a fork puts back, and a     *)
(* fork changes no content, but takes those of requests whose status was   *)
(* changed in what it takes back.                                          *)
(*                                                                         *)
(* The audit table never has contents, so that it is the audit table of    *)
(* the outlines: Table of AuditLogProofs holds of those.  Followed says    *)
(* what became of the contents themselves, Noted that every entry is of a  *)
(* change, and Stays that a request which was there still is.              *)
(***************************************************************************)
EXTENDS RelicRequests, AuditLogProofs

OutlinesOpened == [b \in 1..head |-> Outline(opened[b])]

OutlineTable ==
  Table(Request, FioRequest, Outline(fiorequests), fiorequestsaudit, OutlinesOpened, head)

WithoutContent == \A a \in fiorequestsaudit : a.row.content = Null

(* A request from before block b has the content it had then, or none if   *)
(* its status was changed in b or later.                                   *)
Follows(row, old, b, blocks) ==
  row # Null /\ row.fk_block_number < b =>
    /\ old # Null
    /\ \/ row.content = old.content
       \/ row.content = Null /\ \E c \in blocks : c >= b

Followed ==
  \A b \in 1..head : \A id \in Request :
    /\ Follows(fiorequests[id], opened[b][id], b, changed[id])
    /\ \A c \in b..head : Follows(opened[c][id], opened[b][id], b, changed[id])

Noted == \A a \in fiorequestsaudit : a.op \in changed[a.id]

Stays ==
  \A b \in 1..head : \A id \in Request : opened[b][id] # Null =>
    fiorequests[id] # Null /\ \A c \in b..head : opened[c][id] # Null

IInv == TypeOK /\ OutlineTable /\ WithoutContent /\ Followed /\ Noted /\ Stays

-----------------------------------------------------------------------------
(* Outlines.                                                               *)

LEMMA CopiedType ==
  ASSUME NEW row \in FioRequest
  PROVE  /\ Copied(row) \in FioRequest /\ Copied(row) # Null
         /\ Copied(row).fk_block_number = row.fk_block_number
         /\ Copied(row).content = Null
         /\ row.content = Null => Copied(row) = row
BY NullRequestAssumption DEF Copied, FioRequest

LEMMA OutlineType ==
  ASSUME NEW table \in Rows(Request, FioRequest)
  PROVE  /\ Outline(table) \in Rows(Request, FioRequest)
         /\ \A id \in Request :
              /\ table[id] = Null <=> Outline(table)[id] = Null
              /\ table[id] # Null =>
                   /\ table[id] \in FioRequest /\ Outline(table)[id] = Copied(table[id])
                   /\ Outline(table)[id].fk_block_number = table[id].fk_block_number
<1>1. \A id \in Request : table[id] # Null => table[id] \in FioRequest
  BY DEF Rows
<1>2. \A id \in Request : Outline(table)[id] = IF table[id] = Null THEN Null
                                               ELSE Copied(table[id])
  BY DEF Outline
<1>3. \A id \in Request : table[id] # Null =>
         /\ Outline(table)[id] \in FioRequest /\ Outline(table)[id] # Null
         /\ Outline(table)[id].fk_block_number = table[id].fk_block_number
  BY <1>1, <1>2, CopiedType
<1>4. Outline(table) \in Rows(Request, FioRequest)
  BY <1>2, <1>3 DEF Outline, Rows
<1> QED BY <1>1, <1>2, <1>3, <1>4

(* A rollback commutes with taking the outline, entries having no content. *)
LEMMA RollbackOfOutline ==
  ASSUME NEW table \in Rows(Request, FioRequest),
         NEW audit \in SUBSET Entries(Request, FioRequest),
         \A a \in audit : a.row.content = Null, NEW b \in Nat
  PROVE  /\ RolledBack(table, audit, b) \in Rows(Request, FioRequest)
         /\ Outline(RolledBack(table, audit, b)) = RolledBack(Outline(table), audit, b)
<1> DEFINE out == Outline(table)
           back(id) == Drop(Version(table, audit, b, id), b)
           outback(id) == Drop(Version(out, audit, b, id), b)
<1>1. RolledBack(table, audit, b) = [id \in Request |-> back(id)]
  BY RolledBackPointwise
<1>2. RolledBack(out, audit, b) = [id \in Request |-> outback(id)]
  BY OutlineType, RolledBackPointwise
<1>3. ASSUME NEW id \in Request
      PROVE  /\ back(id) \in FioRequest \cup {Null}
             /\ outback(id) = IF back(id) = Null THEN Null ELSE Copied(back(id))
  <2>1. CASE Since(audit, id, b) = {}
    <3>1. Version(table, audit, b, id) = table[id] /\ Version(out, audit, b, id) = out[id]
      BY <2>1 DEF Version
    <3>2. /\ table[id] = Null <=> out[id] = Null
          /\ table[id] # Null => /\ table[id] \in FioRequest /\ out[id] = Copied(table[id])
                                 /\ out[id].fk_block_number = table[id].fk_block_number
      BY OutlineType
    <3> HIDE DEF out
    <3> QED BY <3>1, <3>2 DEF Drop
  <2>2. CASE Since(audit, id, b) # {}
    <3> DEFINE row == FirstSince(audit, id, b).row
    <3>1. FirstSince(audit, id, b) \in audit
      BY <2>2, FirstSinceIsFirst DEF Since
    <3>2. row \in FioRequest /\ row.content = Null
      BY <3>1 DEF Entries
    <3>3. Version(table, audit, b, id) = row /\ Version(out, audit, b, id) = row
      BY <2>2 DEF Version
    <3>4. Copied(row) = row
      BY <3>2, CopiedType
    <3> HIDE DEF row, out
    <3> QED BY <3>2, <3>3, <3>4 DEF Drop
  <2> QED BY <2>1, <2>2
<1> HIDE DEF back, outback, out
<1>4. [id \in Request |-> back(id)] \in Rows(Request, FioRequest)
  BY <1>3 DEF Rows
<1>5. Outline([id \in Request |-> back(id)]) = [id \in Request |-> outback(id)]
  BY <1>3 DEF Outline
<1> QED BY <1>1, <1>2, <1>4, <1>5 DEF out

-----------------------------------------------------------------------------
LEMMA InitIInv == Init => IInv
<1> SUFFICES ASSUME Init PROVE IInv
  OBVIOUS
<1> USE DEF Init
<1>1. fiorequests \in Rows(Request, FioRequest) /\ head \in 0..MaxBlock
  BY RequestsAssumption DEF Rows
<1>2. TypeOK
  BY <1>1 DEF TypeOK
<1>3. IsRow(FioRequest)
  BY NullRequestAssumption DEF IsRow, FioRequest
<1>4. Outline(fiorequests) = fiorequests
  BY DEF Outline
<1>5. OutlineTable
  BY <1>1, <1>3, <1>4 DEF OutlineTable, OutlinesOpened, Table, Sound, Exact
<1>6. WithoutContent /\ Followed /\ Noted /\ Stays
  BY DEF WithoutContent, Followed, Noted, Stays
<1> QED BY <1>2, <1>5, <1>6 DEF IInv

LEMMA InsBlocksIInv == ASSUME IInv, InsBlocks PROVE IInv'
<1>1. /\ head \in Nat /\ head' = head + 1 /\ head' \in 0..MaxBlock
      /\ opened' = [b \in 1..(head + 1) |-> IF b = head + 1 THEN fiorequests ELSE opened[b]]
      /\ UNCHANGED <<fiorequests, fiorequestsaudit, records, changed>>
  BY RequestsAssumption DEF IInv, InsBlocks, TypeOK
<1>2. TypeOK'
  BY <1>1 DEF IInv, TypeOK
<1>3. OutlinesOpened' = [b \in 1..(head + 1) |-> IF b = head + 1 THEN Outline(fiorequests)
                                                 ELSE OutlinesOpened[b]]
  BY <1>1 DEF OutlinesOpened
<1>4. OutlineTable'
  <2> DEFINE out == Outline(fiorequests)
             o == OutlinesOpened
  <2>1. Table(Request, FioRequest, out, fiorequestsaudit, o, head)
    BY DEF IInv, OutlineTable
  <2>2. Outline(fiorequests)' = out
    BY <1>1 DEF Outline
  <2> HIDE DEF out, o
  <2>3. Table(Request, FioRequest, out, fiorequestsaudit,
              [b \in 1..(head + 1) |-> IF b = head + 1 THEN out ELSE o[b]], head + 1)
    BY <2>1, OpenKeepsTable
  <2> QED BY <1>1, <1>3, <2>2, <2>3 DEF OutlineTable, out, o
<1>5. Followed'
  <2>1. \A b \in 1..head' : \/ b \in 1..head /\ opened'[b] = opened[b]
                            \/ b = head + 1 /\ opened'[b] = fiorequests
    BY <1>1
  <2>2. ASSUME NEW b \in 1..head', NEW id \in Request, NEW c \in b..head'
        PROVE  /\ Follows(fiorequests[id], opened'[b][id], b, changed[id])
               /\ Follows(opened'[c][id], opened'[b][id], b, changed[id])
    <3>1. c \in 1..head'
      BY <1>1
    <3>2. CASE b \in 1..head /\ c \in b..head
      BY <1>1, <2>1, <3>1, <3>2 DEF IInv, Followed
    <3>3. CASE b \in 1..head /\ c = head + 1
      BY <1>1, <2>1, <3>1, <3>3 DEF IInv, Followed
    <3>4. CASE b = head + 1
      <4>1. opened'[b] = fiorequests /\ opened'[c] = fiorequests
        BY <1>1, <2>1, <3>1, <3>4
      <4> QED BY <4>1 DEF Follows
    <3> QED BY <1>1, <3>1, <3>2, <3>3, <3>4
  <2>3. \A b \in 1..head' : b \in b..head'
    BY <1>1
  <2> QED BY <1>1, <2>2, <2>3 DEF Followed
<1>6. WithoutContent' /\ Noted'
  BY <1>1 DEF IInv, WithoutContent, Noted
<1>7. Stays'
  <2>1. ASSUME NEW b \in 1..head', NEW id \in Request, NEW c \in b..head',
               opened'[b][id] # Null
        PROVE  fiorequests[id] # Null /\ opened'[c][id] # Null
    <3>1. CASE b = head + 1
      BY <1>1, <2>1, <3>1
    <3>2. CASE b \in 1..head /\ c = head + 1
      BY <1>1, <2>1, <3>2 DEF IInv, Stays
    <3>3. CASE b \in 1..head /\ c \in b..head
      BY <1>1, <2>1, <3>3 DEF IInv, Stays
    <3> QED BY <1>1, <3>1, <3>2, <3>3
  <2>2. \A b \in 1..head' : b \in b..head'
    BY <1>1
  <2> QED BY <1>1, <2>1, <2>2 DEF Stays
<1> QED BY <1>2, <1>4, <1>5, <1>6, <1>7 DEF IInv

LEMMA InsFioRequestsIInv ==
  ASSUME IInv, NEW id \in Request, NEW p \in Handle, NEW q \in Handle, NEW c \in Content,
         InsFioRequests(id, p, q, c, "pending")
  PROVE  IInv'
<1> DEFINE row == [fk_block_number |-> head, payer |-> p, payee |-> q,
                   content |-> c, request_status |-> "pending"]
<1>1. /\ head > 0 /\ fiorequests[id] = Null /\ fiorequests' = [fiorequests EXCEPT ![id] = row]
      /\ UNCHANGED <<head, fiorequestsaudit, records, opened, changed>>
  BY DEF InsFioRequests
<1>2. head \in Nat /\ fiorequests \in Rows(Request, FioRequest)
  BY DEF IInv, TypeOK
<1>3. row \in FioRequest /\ row # Null /\ row.fk_block_number = head
  BY <1>2, NullRequestAssumption DEF FioRequest, Status
<1> HIDE DEF row
<1>4. /\ fiorequests' \in Rows(Request, FioRequest)
      /\ \A i \in Request : fiorequests'[i] = IF i = id THEN row ELSE fiorequests[i]
  BY <1>1, <1>2, <1>3 DEF Rows
<1>5. TypeOK'
  BY <1>1, <1>4 DEF IInv, TypeOK
<1>6. OutlineTable'
  <2> DEFINE after == fiorequests'
  <2>0. /\ after \in Rows(Request, FioRequest)
        /\ \A i \in Request : after[i] = IF i = id THEN row ELSE fiorequests[i]
    BY <1>4
  <2> HIDE DEF after
  <2>1. /\ Outline(after) \in Rows(Request, FioRequest)
        /\ Outline(after)[id] = Copied(row)
        /\ \A i \in Request : i # id => Outline(after)[i] = Outline(fiorequests)[i]
        /\ Outline(fiorequests)[id] = Null
    <3>1. Outline(after) \in Rows(Request, FioRequest)
      BY <2>0, OutlineType
    <3>2. \A i \in Request :
            /\ Outline(after)[i] = IF after[i] = Null THEN Null ELSE Copied(after[i])
            /\ Outline(fiorequests)[i] = IF fiorequests[i] = Null THEN Null
                                         ELSE Copied(fiorequests[i])
      BY DEF Outline
    <3> QED BY <3>1, <3>2, <2>0, <1>1, <1>3
  <2>2. Copied(row) \in FioRequest /\ Copied(row).fk_block_number = head
    BY <1>3, CopiedType
  <2>3. Table(Request, FioRequest, Outline(after), fiorequestsaudit, OutlinesOpened,
              head)
    BY <1>1, <2>1, <2>2, InsertKeepsTable DEF IInv, OutlineTable
  <2>4. OutlinesOpened' = OutlinesOpened /\ Outline(fiorequests)' = Outline(after)
    BY <1>1 DEF OutlinesOpened, Outline, after
  <2> QED BY <1>1, <2>3, <2>4 DEF OutlineTable
<1>7. Followed'
  BY <1>1, <1>2, <1>3, <1>4 DEF IInv, Followed, Follows
<1>8. WithoutContent' /\ Noted'
  BY <1>1 DEF IInv, WithoutContent, Noted
<1>9. Stays'
  BY <1>1, <1>3, <1>4 DEF IInv, Stays
<1> QED BY <1>5, <1>6, <1>7, <1>8, <1>9 DEF IInv

(* A status is set: in the outline an update with its entry.               *)
LEMMA UpdFioRequestsStatusIInv ==
  ASSUME IInv, NEW id \in Request, NEW s \in Status, UpdFioRequestsStatus(id, s)
  PROVE  IInv'
<1> DEFINE old == fiorequests[id]
           new == [old EXCEPT !.request_status = s]
           entry == [pk |-> NextPk(fiorequestsaudit), id |-> id, op |-> head, row |-> old]
<1>1. /\ head > 0 /\ old # Null /\ Room(fiorequestsaudit)
      /\ fiorequests' = [fiorequests EXCEPT ![id] = new]
      /\ fiorequestsaudit' = {[e EXCEPT !.row = Copied(@)] :
                                e \in Logged(fiorequests, fiorequestsaudit, id, new, head)}
      /\ changed' = IF old = new THEN changed ELSE [changed EXCEPT ![id] = @ \cup {head}]
      /\ UNCHANGED <<head, records, opened>>
  BY DEF UpdFioRequestsStatus
<1>2. /\ head \in Nat /\ fiorequests \in Rows(Request, FioRequest)
      /\ fiorequestsaudit \subseteq Entries(Request, FioRequest)
  BY DEF IInv, TypeOK
<1>3. old \in FioRequest
  BY <1>1, <1>2 DEF Rows
<1>4. /\ new \in FioRequest /\ new # Null /\ new.fk_block_number = old.fk_block_number
      /\ new.content = old.content /\ new.request_status = s
      /\ old.request_status = s => new = old
  BY <1>3, NullRequestAssumption DEF FioRequest
<1>5. Copied(old) = Copied(new) <=> old = new
  <2>1. Copied(old).request_status = old.request_status
    BY <1>3 DEF Copied, FioRequest
  <2>2. Copied(new).request_status = s
    BY <1>4 DEF Copied, FioRequest
  <2> HIDE DEF old, new
  <2> QED BY <1>4, <2>1, <2>2
<1>6. \A a \in fiorequestsaudit : [a EXCEPT !.row = Copied(@)] = a
  <2> SUFFICES ASSUME NEW a \in fiorequestsaudit
               PROVE  [a EXCEPT !.row = Copied(@)] = a
    OBVIOUS
  <2>1. a \in Entries(Request, FioRequest) /\ a.row.content = Null
    BY <1>2 DEF IInv, WithoutContent
  <2>2. Copied(a.row) = a.row
    BY <2>1, CopiedType DEF Entries
  <2> QED BY <2>1, <2>2 DEF Entries
<1>7. fiorequestsaudit' =
        Logged(Outline(fiorequests), fiorequestsaudit, id, Copied(new), head)
  <2>1. Outline(fiorequests)[id] = Copied(old)
    BY <1>1, <1>2, OutlineType
  <2>2. CASE old = new
    <3>1. fiorequestsaudit' = {[e EXCEPT !.row = Copied(@)] : e \in fiorequestsaudit}
      BY <1>1, <2>2 DEF Logged
    <3>2. fiorequestsaudit' = fiorequestsaudit
      BY <3>1, <1>6
    <3> QED BY <3>2, <2>1, <2>2 DEF Logged
  <2>3. CASE old # new
    <3>1. fiorequestsaudit' =
            {[e EXCEPT !.row = Copied(@)] : e \in fiorequestsaudit \cup {entry}}
      BY <1>1, <2>3 DEF Logged
    <3>2. [entry EXCEPT !.row = Copied(@)] =
            [pk |-> NextPk(fiorequestsaudit), id |-> id, op |-> head, row |-> Copied(old)]
      OBVIOUS
    <3>3. Logged(Outline(fiorequests), fiorequestsaudit, id, Copied(new), head) =
            fiorequestsaudit \cup {[entry EXCEPT !.row = Copied(@)]}
      BY <3>2, <2>1, <2>3, <1>5 DEF Logged
    <3> HIDE DEF entry, old, new
    <3> QED BY <3>1, <3>3, <1>6
  <2> QED BY <2>2, <2>3
<1> HIDE DEF new
<1>8. /\ fiorequests' \in Rows(Request, FioRequest)
      /\ \A i \in Request : fiorequests'[i] = IF i = id THEN new ELSE fiorequests[i]
  BY <1>1, <1>2, <1>4 DEF Rows
<1>9. Copied(new) \in FioRequest /\ Copied(new).fk_block_number \in 1..head
  <2>1. Copied(new) \in FioRequest /\ Copied(new).fk_block_number = old.fk_block_number
    BY <1>4, CopiedType
  <2>2. Outline(fiorequests)[id] # Null
        /\ Outline(fiorequests)[id].fk_block_number = old.fk_block_number
    BY <1>1, <1>2, OutlineType
  <2>3. DOMAIN Outline(fiorequests) = Request
    BY DEF Outline
  <2> QED BY <2>1, <2>2, <2>3 DEF IInv, OutlineTable, Table, Sound
<1>10. OutlineTable'
  <2>1. Outline(fiorequests') = [Outline(fiorequests) EXCEPT ![id] = Copied(new)]
    BY <1>4, <1>8 DEF Outline
  <2>2. Table(Request, FioRequest, [Outline(fiorequests) EXCEPT ![id] = Copied(new)],
              Logged(Outline(fiorequests), fiorequestsaudit, id, Copied(new), head),
              OutlinesOpened, head)
    BY <1>1, <1>2, <1>9, OutlineType, UpdateKeepsTable DEF IInv, OutlineTable
  <2>3. OutlinesOpened' = OutlinesOpened /\ Outline(fiorequests)' = Outline(fiorequests')
    BY <1>1 DEF OutlinesOpened, Outline
  <2> QED BY <1>1, <1>7, <2>1, <2>2, <2>3 DEF OutlineTable
<1>14. /\ changed' \in [Request -> SUBSET (1..MaxBlock)]
       /\ \A i \in Request : changed[i] \subseteq changed'[i]
       /\ old # new => head \in changed'[id]
  <2>1. head \in 1..MaxBlock /\ changed \in [Request -> SUBSET (1..MaxBlock)]
    BY <1>1, <1>2, RequestsAssumption DEF IInv, TypeOK
  <2>2. CASE old = new
    BY <1>1, <2>1, <2>2
  <2>3. CASE old # new
    <3>1. changed' = [changed EXCEPT ![id] = @ \cup {head}]
      BY <1>1, <2>3
    <3> HIDE DEF old
    <3> QED BY <2>1, <3>1
  <2> QED BY <2>2, <2>3
<1>11. TypeOK'
  BY <1>1, <1>8, <1>10, <1>14 DEF IInv, TypeOK, OutlineTable, Table
<1>12. Followed'
  <2>1. ASSUME NEW b \in 1..head, NEW i \in Request
        PROVE  Follows(fiorequests'[i], opened[b][i], b, changed[i])
    BY <1>1, <1>4, <1>8 DEF IInv, Followed, Follows
  <2>2. ASSUME NEW b \in 1..head, NEW i \in Request, NEW c \in b..head
        PROVE  Follows(opened[c][i], opened[b][i], b, changed[i])
    BY DEF IInv, Followed
  <2>3. \A i \in Request : \A row, other, b :
          Follows(row, other, b, changed[i]) => Follows(row, other, b, changed'[i])
    BY <1>14 DEF Follows
  <2> QED BY <1>1, <2>1, <2>2, <2>3 DEF Followed
<1>13. WithoutContent'
  <2>1. \A e \in Logged(fiorequests, fiorequestsaudit, id, new, head) : e.row \in FioRequest
    BY <1>2, <1>3 DEF Logged, Entries
  <2>2. ASSUME NEW e \in Logged(fiorequests, fiorequestsaudit, id, new, head)
        PROVE  [e EXCEPT !.row = Copied(@)].row.content = Null
    <3>1. CASE e \in fiorequestsaudit
      BY <3>1, <1>6 DEF IInv, WithoutContent
    <3>2. CASE e = entry
      BY <3>2, <1>3, CopiedType
    <3> QED BY <2>2, <3>1, <3>2 DEF Logged
  <2> QED BY <1>1, <2>2 DEF WithoutContent
<1>15. Noted'
  <2>1. ASSUME NEW a \in fiorequestsaudit PROVE a.op \in changed'[a.id]
    <3>1. a.id \in Request
      BY <1>2 DEF Entries
    <3> QED BY <3>1, <1>14 DEF IInv, Noted
  <2>2. CASE Outline(fiorequests)[id] = Copied(new)
    BY <1>7, <2>1, <2>2 DEF Logged, Noted
  <2>3. CASE Outline(fiorequests)[id] # Copied(new)
    <3> DEFINE e == [pk |-> NextPk(fiorequestsaudit), id |-> id, op |-> head,
                     row |-> Outline(fiorequests)[id]]
    <3>1. fiorequestsaudit' = fiorequestsaudit \cup {e}
      BY <1>7, <2>3 DEF Logged
    <3>2. e.id = id /\ e.op = head
      OBVIOUS
    <3>3. old # new
      BY <1>1, <1>2, <2>3, OutlineType
    <3> HIDE DEF e, old
    <3> QED BY <1>14, <2>1, <3>1, <3>2, <3>3 DEF Noted
  <2> QED BY <2>2, <2>3
<1>16. Stays'
  BY <1>1, <1>4, <1>8 DEF IInv, Stays
<1> QED BY <1>10, <1>11, <1>12, <1>13, <1>15, <1>16 DEF IInv

LEMMA InsRecordIInv ==
  ASSUME IInv, NEW row, InsRecord(row),
         row \in [table : {"fiodatas"}, fk_block_number : Nat, payer : Handle, payee : Handle,
                  content : Content, data_status : Status]
              \cup [table : {"handleactivities"}, fk_block_number : Nat,
                    ref : Handle \cup {Null}]
  PROVE  IInv'
<1>1. /\ records' = records \cup {row}
      /\ UNCHANGED <<head, fiorequests, fiorequestsaudit, opened, changed>>
  BY DEF InsRecord
<1>2. TypeOK'
  BY <1>1 DEF IInv, TypeOK
<1>3. OutlineTable' /\ WithoutContent' /\ Followed' /\ Noted' /\ Stays'
  BY <1>1 DEF IInv, OutlineTable, OutlinesOpened, Outline, WithoutContent, Followed, Follows,
              Noted, Stays
<1> QED BY <1>2, <1>3 DEF IInv

LEMMA InsFioDatasIInv ==
  ASSUME IInv, NEW p \in Handle, NEW q \in Handle, NEW c \in Content,
         InsFioDatas(p, q, c, "sent_to_blockchain")
  PROVE  IInv'
<1>1. head \in Nat
  BY DEF IInv, TypeOK
<1> QED BY <1>1, InsRecordIInv DEF InsFioDatas, Status

LEMMA InsHandleActivitiesIInv ==
  ASSUME IInv, NEW id \in Request, InsHandleActivitiesFioRequest(id) PROVE IInv'
<1> DEFINE ref == IF fiorequests[id] = Null THEN Null ELSE fiorequests[id].payee
<1>1. head \in Nat /\ ref \in Handle \cup {Null}
  BY DEF IInv, TypeOK, Rows, FioRequest
<1>2. InsRecord([table |-> "handleactivities", fk_block_number |-> head, ref |-> ref])
  BY DEF InsHandleActivitiesFioRequest
<1> HIDE DEF ref
<1> QED BY <1>1, <1>2, InsRecordIInv

-----------------------------------------------------------------------------
(* What a fork makes of a request: the row it is, if that is from before   *)
(* block b, or a version of the audit table, which has no content.         *)
LEMMA ForkOfRequest ==
  ASSUME IInv, NEW b \in 1..head, NEW id \in Request, RequestsAfter(b)[id] # Null
  PROVE  \/ RequestsAfter(b)[id] = fiorequests[id]
         \/ /\ RequestsAfter(b)[id].content = Null
            /\ \E c \in changed[id] : c >= b
<1>1. /\ fiorequests \in Rows(Request, FioRequest) /\ b \in Nat
      /\ fiorequestsaudit \in SUBSET Entries(Request, FioRequest)
  BY DEF IInv, TypeOK
<1> DEFINE v == Version(fiorequests, fiorequestsaudit, b, id)
<1>2. RequestsAfter(b)[id] = Drop(v, b)
  BY <1>1, RolledBackPointwise DEF RequestsAfter
<1> HIDE DEF v
<1>3. RequestsAfter(b)[id] = v
  BY <1>2 DEF Drop
<1>4. CASE Since(fiorequestsaudit, id, b) = {}
  BY <1>3, <1>4 DEF v, Version
<1>5. CASE Since(fiorequestsaudit, id, b) # {}
  <2> DEFINE a == FirstSince(fiorequestsaudit, id, b)
  <2>1. a \in fiorequestsaudit /\ a.id = id /\ a.op >= b
    BY <1>1, <1>5, FirstSinceIsFirst DEF Since
  <2>2. v = a.row
    BY <1>5 DEF v, Version
  <2> HIDE DEF a
  <2>3. a.row.content = Null /\ a.op \in changed[id]
    BY <2>1 DEF IInv, WithoutContent, Noted
  <2> QED BY <1>3, <2>1, <2>2, <2>3
<1> QED BY <1>4, <1>5

(* The requests a fork leaves are those the block found, of the same block. *)
LEMMA ForkOutlines ==
  ASSUME IInv, NEW b \in 1..head
  PROVE  /\ RequestsAfter(b) \in Rows(Request, FioRequest)
         /\ Outline(RequestsAfter(b)) = Outline(opened[b])
         /\ Outline(RequestsAfter(b)) =
              RolledBack(Outline(fiorequests), fiorequestsaudit, b)
         /\ \A id \in Request : RequestsAfter(b)[id] = Null <=> opened[b][id] = Null
         /\ \A id \in Request : RequestsAfter(b)[id] # Null =>
              /\ opened[b][id] # Null
              /\ RequestsAfter(b)[id].fk_block_number = opened[b][id].fk_block_number
<1>1. /\ fiorequests \in Rows(Request, FioRequest) /\ b \in Nat
      /\ fiorequestsaudit \in SUBSET Entries(Request, FioRequest)
      /\ opened[b] \in Rows(Request, FioRequest)
  BY DEF IInv, TypeOK
<1>2. /\ RequestsAfter(b) \in Rows(Request, FioRequest)
      /\ Outline(RequestsAfter(b)) = RolledBack(Outline(fiorequests), fiorequestsaudit, b)
  BY <1>1, RollbackOfOutline DEF IInv, WithoutContent, RequestsAfter
<1>3. RolledBack(Outline(fiorequests), fiorequestsaudit, b) = OutlinesOpened[b]
  BY DEF IInv, OutlineTable, Table, Exact
<1>4. OutlinesOpened[b] = Outline(opened[b])
  BY DEF OutlinesOpened
<1> DEFINE after == RequestsAfter(b)
           old == opened[b]
<1>5. after \in Rows(Request, FioRequest) /\ old \in Rows(Request, FioRequest)
      /\ Outline(after) = Outline(old)
  BY <1>1, <1>2, <1>3, <1>4
<1> HIDE DEF after, old
<1>6. \A id \in Request : /\ after[id] = Null <=> Outline(after)[id] = Null
                          /\ after[id] # Null =>
                               Outline(after)[id].fk_block_number = after[id].fk_block_number
  BY <1>5, OutlineType
<1>7. \A id \in Request : /\ old[id] = Null <=> Outline(old)[id] = Null
                          /\ old[id] # Null =>
                               Outline(old)[id].fk_block_number = old[id].fk_block_number
  BY <1>5, OutlineType
<1>9. \A id \in Request : after[id] = Null <=> old[id] = Null
  BY <1>5, <1>6, <1>7
<1>8. \A id \in Request : after[id] # Null =>
        old[id] # Null /\ after[id].fk_block_number = old[id].fk_block_number
  BY <1>5, <1>6, <1>7
<1> QED BY <1>2, <1>3, <1>4, <1>8, <1>9 DEF after, old

(* A request a fork to block b leaves follows those of every block up to b. *)
LEMMA ForkFollows ==
  ASSUME IInv, NEW b \in 1..head, NEW c \in 1..b, NEW id \in Request
  PROVE  Follows(RequestsAfter(b)[id], opened[c][id], c, changed[id])
<1> DEFINE row == RequestsAfter(b)[id]
<1>1. SUFFICES ASSUME row # Null, row.fk_block_number < c
               PROVE  /\ opened[c][id] # Null
                      /\ \/ row.content = opened[c][id].content
                         \/ row.content = Null /\ \E d \in changed[id] : d >= c
  BY DEF Follows
<1>2. head \in Nat /\ c \in 1..head /\ b \in c..head
  BY DEF IInv, TypeOK
<1>3. opened[b][id] # Null /\ row.fk_block_number = opened[b][id].fk_block_number
  BY <1>1, ForkOutlines
<1>4. Follows(opened[b][id], opened[c][id], c, changed[id])
  BY <1>2 DEF IInv, Followed
<1>5. opened[c][id] # Null
  BY <1>1, <1>3, <1>4 DEF Follows
<1>6. CASE row = fiorequests[id]
  <2>1. Follows(fiorequests[id], opened[c][id], c, changed[id])
    BY <1>2 DEF IInv, Followed
  <2> HIDE DEF row
  <2> QED BY <1>1, <1>5, <1>6, <2>1 DEF Follows
<1>7. CASE row.content = Null /\ \E d \in changed[id] : d >= b
  <2>1. PICK d \in changed[id] : d >= b
    BY <1>7
  <2>2. d \in Nat /\ d >= c
    <3>1. d \in 1..MaxBlock
      BY <2>1 DEF IInv, TypeOK
    <3> QED BY <1>2, <2>1, <3>1, RequestsAssumption
  <2> QED BY <1>5, <1>7, <2>1, <2>2
<1>8. row = fiorequests[id] \/ (row.content = Null /\ \E d \in changed[id] : d >= b)
  BY <1>1, ForkOfRequest
<1> QED BY <1>5, <1>6, <1>7, <1>8

LEMMA RbForkIInv ==
  ASSUME IInv, NEW b \in 1..head, RbFork(b)
  PROVE  IInv' /\ Outline(fiorequests)' = Outline(opened[b])
<1>1. /\ fiorequests' = RequestsAfter(b) /\ fiorequestsaudit' = RequestsLogAfter(b)
      /\ records' = {r \in records : r.fk_block_number < b}
      /\ head' = b - 1 /\ opened' = [c \in 1..(b - 1) |-> opened[c]]
      /\ changed' = [id \in Request |-> IF RequestsAfter(b)[id] = Null THEN {}
                                         ELSE changed[id]]
      /\ head \in Nat
  BY DEF RbFork, IInv, TypeOK
<1> DEFINE after == RequestsAfter(b)
           log == {a \in fiorequestsaudit : a.op < b}
           out == Outline(fiorequests)
<1>2. /\ after \in Rows(Request, FioRequest) /\ Outline(after) = Outline(opened[b])
      /\ Outline(after) = RolledBack(out, fiorequestsaudit, b)
  BY ForkOutlines
<1>3. RolledBackLog(out, fiorequestsaudit, b, head) = log
  BY ForkKeepsOldEntries DEF IInv, OutlineTable
<1>4. RequestsLogAfter(b) = log
  <2>1. RequestsLogAfter(b) \subseteq log
    BY <1>1 DEF RequestsLogAfter, RolledBackLog, KeptLog, RestoreLog
  <2>2. \A a \in log : a.row.fk_block_number < b
    BY <1>3 DEF RolledBackLog, KeptLog
  <2>3. log \subseteq RequestsLogAfter(b)
    BY <2>2 DEF RequestsLogAfter, RolledBackLog, KeptLog, RestoreLog
  <2> QED BY <2>1, <2>3
<1>5. OutlinesOpened' = [c \in 1..(b - 1) |-> OutlinesOpened[c]]
  BY <1>1 DEF OutlinesOpened
<1>6. Outline(fiorequests)' = Outline(after)
  BY <1>1 DEF Outline
<1>7. Table(Request, FioRequest, RolledBack(out, fiorequestsaudit, b),
            RolledBackLog(out, fiorequestsaudit, b, head),
            [c \in 1..(b - 1) |-> OutlinesOpened[c]], b - 1)
  BY ForkKeepsTable DEF IInv, OutlineTable
<1>8. OutlineTable'
  <2> HIDE DEF after, log, out
  <2> QED BY <1>1, <1>2, <1>3, <1>4, <1>5, <1>6, <1>7 DEF OutlineTable
<1>9. TypeOK'
  <2>1. head' \in 0..MaxBlock
    BY <1>1, RequestsAssumption DEF IInv, TypeOK
  <2>2. opened' \in [1..head' -> Rows(Request, FioRequest)]
    BY <1>1 DEF IInv, TypeOK
  <2> HIDE DEF after, log, out
  <2>3. fiorequests' \in Rows(Request, FioRequest)
    BY <1>1, <1>2 DEF after
  <2>4. fiorequestsaudit' \subseteq Entries(Request, FioRequest)
    BY <1>1, <1>4 DEF IInv, TypeOK, log
  <2>5. changed' \in [Request -> SUBSET (1..MaxBlock)]
    BY <1>1 DEF IInv, TypeOK
  <2> QED BY <1>1, <2>1, <2>2, <2>3, <2>4, <2>5 DEF IInv, TypeOK
<1>10. WithoutContent'
  BY <1>1, <1>4 DEF IInv, WithoutContent
<1>11. /\ \A c \in 1..(b - 1) : /\ c \in 1..b /\ c \in 1..head /\ b \in c..head
                                /\ c \in c..(b - 1) /\ opened'[c] = opened[c]
                                /\ \A d \in c..(b - 1) : d \in c..head /\ d \in 1..(b - 1)
       /\ head' = b - 1 /\ fiorequests' = after
  BY <1>1
<1>12. \A id \in Request : after[id] = Null <=> opened[b][id] = Null
  BY ForkOutlines
<1>13. \A id \in Request : changed'[id] = IF after[id] = Null THEN {} ELSE changed[id]
  BY <1>1
<1>14. \A a \in fiorequestsaudit' : a.id \in Request /\ fiorequests'[a.id] # Null
  <2>1. /\ Sound(Outline(fiorequests), fiorequestsaudit, OutlinesOpened, head)'
        /\ fiorequestsaudit' \subseteq Entries(Request, FioRequest)
    BY <1>8, <1>9 DEF OutlineTable, Table, TypeOK
  <2>2. ASSUME NEW a \in fiorequestsaudit' PROVE Outline(fiorequests)'[a.id] # Null
    BY <2>1 DEF Sound
  <2>3. \A a \in fiorequestsaudit' : a.id \in Request
    BY <2>1 DEF Entries
  <2> HIDE DEF after, log, out
  <2> QED BY <2>2, <2>3 DEF Outline
<1> HIDE DEF log, out
<1>15. Noted'
  <2> SUFFICES ASSUME NEW a \in fiorequestsaudit' PROVE a.op \in changed'[a.id]
    BY DEF Noted
  <2>1. a \in fiorequestsaudit
    BY <1>1, <1>4 DEF log
  <2>2. a.op \in changed[a.id]
    BY <2>1 DEF IInv, Noted
  <2> HIDE DEF after
  <2> QED BY <2>2, <1>11, <1>13, <1>14
<1> HIDE DEF after
<1>16. Stays'
  <2> SUFFICES ASSUME NEW c \in 1..(b - 1), NEW id \in Request, opened[c][id] # Null
               PROVE  after[id] # Null /\ \A d \in c..(b - 1) : opened[d][id] # Null
    BY <1>11 DEF Stays
  <2>1. \A d \in c..head : opened[d][id] # Null
    BY <1>11 DEF IInv, Stays
  <2> QED BY <1>11, <1>12, <2>1
<1>17. Followed'
  <2>1. ASSUME NEW c \in 1..(b - 1), NEW id \in Request, NEW d \in c..(b - 1)
        PROVE  /\ Follows(after[id], opened[c][id], c, changed'[id])
               /\ Follows(opened[d][id], opened[c][id], c, changed'[id])
    <3>1. CASE after[id] = Null
      <4>1. opened[d][id] = Null
        BY <1>11, <1>12, <3>1 DEF IInv, Stays
      <4> QED BY <3>1, <4>1 DEF Follows
    <3>2. CASE after[id] # Null
      <4>1. /\ Follows(after[id], opened[c][id], c, changed[id])
            /\ Follows(opened[d][id], opened[c][id], c, changed[id])
        BY <1>11, ForkFollows DEF IInv, Followed, after
      <4> QED BY <1>13, <3>2, <4>1
    <3> QED BY <3>1, <3>2
  <2> QED BY <1>11, <2>1 DEF Followed
<1> QED BY <1>2, <1>6, <1>8, <1>9, <1>10, <1>15, <1>16, <1>17 DEF IInv, after

LEMMA NextIInv == IInv /\ [Next]_vars => IInv'
<1> SUFFICES ASSUME IInv, [Next]_vars PROVE IInv'
  OBVIOUS
<1>1. CASE UNCHANGED vars
  BY <1>1 DEF IInv, TypeOK, OutlineTable, OutlinesOpened, Outline, WithoutContent, Followed,
              Noted, Stays, vars
<1>2. CASE Next
  BY <1>2, InsBlocksIInv, InsFioRequestsIInv, UpdFioRequestsStatusIInv, InsFioDatasIInv,
     InsHandleActivitiesIInv, RbForkIInv DEF Next
<1> QED BY <1>1, <1>2

LEMMA Invariance == Spec => []IInv
BY InitIInv, NextIInv, PTL DEF Spec

(* Requests, records and the audit table always hold rows of their types.  *)
THEOREM RequestsTypeCorrect == Spec => []TypeOK
<1>1. IInv => TypeOK
  BY DEF IInv
<1> QED BY <1>1, Invariance, PTL

(* A fork to any block leaves each request with the content it had when    *)
(* that block was opened, or with none if its status was changed in that   *)
(* block or later, although rbfork restores rows from entries without      *)
(* contents and the row's block is not its status's.                       *)
THEOREM LossIsConfined == Spec => []LossConfined
<1>1. IInv => LossConfined
  <2> SUFFICES ASSUME IInv, NEW b \in 1..head, NEW id \in Request,
                      RequestsAfter(b)[id] # Null
               PROVE  /\ opened[b][id] # Null
                      /\ \/ RequestsAfter(b)[id].content = opened[b][id].content
                         \/ /\ RequestsAfter(b)[id].content = Null
                            /\ \E c \in changed[id] : c >= b
    BY DEF LossConfined
  <2>1. /\ opened[b][id] # Null
        /\ RequestsAfter(b)[id].fk_block_number = opened[b][id].fk_block_number
    BY ForkOutlines
  <2>2. b \in 1..b
    BY DEF IInv, TypeOK
  <2>3. Follows(RequestsAfter(b)[id], opened[b][id], b, changed[id])
    BY <2>2, ForkFollows
  <2>4. RequestsAfter(b)[id].fk_block_number < b
    <3>1. RequestsAfter(b) = Kept(Restored(fiorequests, fiorequestsaudit, b), b)
      BY DEF RequestsAfter, RolledBack
    <3>2. RequestsAfter(b) \in Rows(Request, FioRequest)
      BY ForkOutlines
    <3>3. RequestsAfter(b)[id].fk_block_number \in Nat
      BY <3>2 DEF Rows, FioRequest
    <3>4. DOMAIN Restored(fiorequests, fiorequestsaudit, b) = Request
      BY DEF Restored, IInv, TypeOK, Rows
    <3>5. ~ (RequestsAfter(b)[id].fk_block_number >= b)
      BY <3>1, <3>4 DEF Kept
    <3> QED BY <3>3, <3>5 DEF IInv, TypeOK
  <2> QED BY <2>1, <2>3, <2>4 DEF Follows
<1> QED BY <1>1, Invariance, PTL

(* Contents aside, the requests are a store that a fork puts back: the     *)
(* abandoned block's status changes are taken back with it.                *)
THEOREM RequestsImplementStore == Spec => ImplementsStore
<1>1. Init => Store!Init
  <2> SUFFICES ASSUME Init PROVE Store!Init
    OBVIOUS
  <2>1. Outline(fiorequests) \in Rows(Request, FioRequest)
    BY DEF Init, Outline, Rows
  <2>2. [b \in DOMAIN opened |-> Outline(opened[b])] =
          [b \in 1..0 |-> Outline(fiorequests)]
    BY DEF Init
  <2> QED BY <2>1, <2>2 DEF Init, Store!Init
<1>2. IInv /\ [Next]_vars => [Store!Next]_(Store!vars)
  <2> SUFFICES ASSUME IInv, [Next]_vars PROVE [Store!Next]_(Store!vars)
    OBVIOUS
  <2> USE DEF Store!vars
  <2>1. IInv'
    BY NextIInv
  <2>2. head \in Nat /\ DOMAIN opened = 1..head
    BY DEF IInv, TypeOK
  <2>3. Outline(fiorequests)' \in Rows(Request, FioRequest)
    <3>1. fiorequests' \in Rows(Request, FioRequest)
      BY <2>1 DEF IInv, TypeOK
    <3>2. Outline(fiorequests') \in Rows(Request, FioRequest)
      BY <3>1, OutlineType
    <3> QED BY <3>2 DEF Outline
  <2>4. ASSUME UNCHANGED <<head, opened>>, head > 0 PROVE Store!Next
    BY <2>3, <2>4 DEF Store!Next, Store!Change, Outline
  <2>5. CASE UNCHANGED vars
    BY <2>5 DEF vars, Outline
  <2>6. CASE InsBlocks
    <3>1. /\ head' = head + 1 /\ fiorequests' = fiorequests
          /\ opened' = [b \in 1..(head + 1) |-> IF b = head + 1 THEN fiorequests
                                                 ELSE opened[b]]
      BY <2>6 DEF InsBlocks
    <3>2. [b \in DOMAIN opened |-> Outline(opened[b])]' =
            [b \in 1..(head + 1) |-> IF b = head + 1 THEN Outline(fiorequests)
                                     ELSE [c \in DOMAIN opened |-> Outline(opened[c])][b]]
      BY <3>1, <2>2 DEF Outline
    <3>3. Outline(fiorequests)' = Outline(fiorequests)
      BY <3>1 DEF Outline
    <3> QED BY <3>1, <3>2, <3>3 DEF Store!Next, Store!NewBlock
  <2>7. ASSUME NEW b \in 1..head, RbFork(b) PROVE Store!Next
    <3>1. Outline(fiorequests)' = Outline(opened[b])
      BY <2>7, RbForkIInv
    <3>2. head' = b - 1 /\ opened' = [c \in 1..(b - 1) |-> opened[c]]
      BY <2>7 DEF RbFork
    <3>3. [c \in DOMAIN opened |-> Outline(opened[c])]' =
            [c \in 1..(b - 1) |-> [d \in DOMAIN opened |-> Outline(opened[d])][c]]
      BY <3>2, <2>2 DEF Outline
    <3> QED BY <3>1, <3>2, <3>3, <2>2 DEF Store!Next, Store!Fork
  <2>8. CASE \E id \in Request, p, q \in Handle, c \in Content :
               InsFioRequests(id, p, q, c, "pending")
    BY <2>4, <2>8 DEF InsFioRequests
  <2>9. CASE \E id \in Request, s \in Status \ {"pending"} : UpdFioRequestsStatus(id, s)
    BY <2>4, <2>9 DEF UpdFioRequestsStatus
  <2>10. CASE \E p, q \in Handle, c \in Content : InsFioDatas(p, q, c, "sent_to_blockchain")
    BY <2>4, <2>10 DEF InsFioDatas, InsRecord
  <2>11. CASE \E id \in Request : InsHandleActivitiesFioRequest(id)
    BY <2>4, <2>11 DEF InsHandleActivitiesFioRequest, InsRecord
  <2> QED BY <2>5, <2>6, <2>7, <2>8, <2>9, <2>10, <2>11 DEF Next
<1> QED BY <1>1, <1>2, Invariance, PTL DEF Spec, ImplementsStore, Store!Spec
=============================================================================
