--------------------------- MODULE RelicRequests ---------------------------
(***************************************************************************)
(* Requests for funds and records of payments: the tables fiorequests, its *)
(* audit table, fiodatas and the handle activities of requests, and the    *)
(* part of rbfork that undoes them.                                        *)
(*                                                                         *)
(* The chain gives every request a number of its own, and a status change  *)
(* comes with that number only: it writes no block, and the audit trigger  *)
(* does not copy the content and the keys of the request.  A handle and a  *)
(* key are what the SELECTs found, Null if there is none.                  *)
(***************************************************************************)
EXTENDS AuditLog, FiniteSets

CONSTANTS
  Request,         \* fio_chain_request_id
  Handle,          \* what the SELECT on handles finds
  Content,         \* the binary content with the keys of payer and payee
  MaxBlock,        \* bound on the block numbers
  MaxRecord        \* bound on the rows of fiodatas and handleactivities

ASSUME RequestsAssumption ==
  /\ MaxBlock \in Nat /\ MaxRecord \in Nat
  /\ Null \notin Content

Status == {"pending", "cancelled", "rejected", "sent_to_blockchain"}

FioRequest == [fk_block_number : Nat, payer : Handle, payee : Handle,
               content : Content \cup {Null}, request_status : Status]

ASSUME NullRequestAssumption == Null \notin FioRequest

VARIABLES
  head,            \* the newest block
  fiorequests, fiorequestsaudit,
  records,         \* fiodatas, handleactivities
  opened,          \* history: the requests when each block was opened
  changed          \* history: the blocks, abandoned ones too, in which the
                   \* status of each request that is there was changed

vars == <<head, fiorequests, fiorequestsaudit, records, opened, changed>>

TypeOK ==
  /\ head \in 0..MaxBlock
  /\ fiorequests \in Rows(Request, FioRequest)
  /\ fiorequestsaudit \subseteq Entries(Request, FioRequest)
  /\ records \subseteq
       [table : {"fiodatas"}, fk_block_number : Nat, payer : Handle, payee : Handle,
        content : Content, data_status : Status]
       \cup [table : {"handleactivities"}, fk_block_number : Nat, ref : Handle \cup {Null}]
  /\ opened \in [1..head -> Rows(Request, FioRequest)]
  /\ changed \in [Request -> SUBSET (1..MaxBlock)]

-----------------------------------------------------------------------------
InsBlocks ==
  /\ head < MaxBlock
  /\ head' = head + 1
  /\ opened' = [b \in 1..(head + 1) |-> IF b = head + 1 THEN fiorequests ELSE opened[b]]
  /\ UNCHANGED <<fiorequests, fiorequestsaudit, records, changed>>

InsFioRequests(id, payer, payee, content, status) ==
  /\ head > 0 /\ fiorequests[id] = Null
  /\ fiorequests' = [fiorequests EXCEPT ![id] =
       [fk_block_number |-> head, payer |-> payer, payee |-> payee,
        content |-> content, request_status |-> status]]
  /\ UNCHANGED <<head, fiorequestsaudit, records, opened, changed>>

(* The columns that logfiorequestsupdate copies; the others are NULL.      *)
Copied(row) == [row EXCEPT !.content = Null]

UpdFioRequestsStatus(id, status) ==
  /\ head > 0 /\ fiorequests[id] # Null /\ Room(fiorequestsaudit)
  /\ LET new == [fiorequests[id] EXCEPT !.request_status = status]
         entries == Logged(fiorequests, fiorequestsaudit, id, new, head)
     IN /\ fiorequests' = [fiorequests EXCEPT ![id] = new]
        /\ fiorequestsaudit' = {[e EXCEPT !.row = Copied(@)] : e \in entries}
        /\ changed' = IF fiorequests[id] = new THEN changed
                      ELSE [changed EXCEPT ![id] = @ \cup {head}]
  /\ UNCHANGED <<head, records, opened>>

InsRecord(row) ==
  /\ head > 0 /\ Cardinality(records) < MaxRecord
  /\ records' = records \cup {row}
  /\ UNCHANGED <<head, fiorequests, fiorequestsaudit, opened, changed>>

InsFioDatas(payer, payee, content, status) ==
  InsRecord([table |-> "fiodatas", fk_block_number |-> head, payer |-> payer,
             payee |-> payee, content |-> content, data_status |-> status])

(* For the handle that the request asks the payment for.                   *)
InsHandleActivitiesFioRequest(id) ==
  InsRecord([table |-> "handleactivities", fk_block_number |-> head,
             ref |-> IF fiorequests[id] = Null THEN Null ELSE fiorequests[id].payee])

-----------------------------------------------------------------------------
(* rbfork, as far as these tables go.                                      *)

RequestsAfter(b) == RolledBack(fiorequests, fiorequestsaudit, b)
RequestsLogAfter(b) == RolledBackLog(fiorequests, fiorequestsaudit, b, head)

RbFork(b) ==
  /\ fiorequests' = RequestsAfter(b)
  /\ fiorequestsaudit' = RequestsLogAfter(b)
  /\ records' = {r \in records : r.fk_block_number < b}
  /\ head' = b - 1
  /\ opened' = [c \in 1..(b - 1) |-> opened[c]]
  /\ changed' = [id \in Request |-> IF RequestsAfter(b)[id] = Null THEN {} ELSE changed[id]]

-----------------------------------------------------------------------------
Init ==
  /\ head = 0
  /\ fiorequests = [id \in Request |-> Null] /\ fiorequestsaudit = {}
  /\ records = {}
  /\ opened = [b \in 1..0 |-> fiorequests]
  /\ changed = [id \in Request |-> {}]

Next ==
  \/ InsBlocks
  \/ \E id \in Request, p, q \in Handle, c \in Content :
       InsFioRequests(id, p, q, c, "pending")
  \/ \E id \in Request, s \in Status \ {"pending"} : UpdFioRequestsStatus(id, s)
  \/ \E p, q \in Handle, c \in Content : InsFioDatas(p, q, c, "sent_to_blockchain")
  \/ \E id \in Request : InsHandleActivitiesFioRequest(id)
  \/ \E b \in 1..head : RbFork(b)

Spec == Init /\ [][Next]_vars

-----------------------------------------------------------------------------
(***************************************************************************)
(* Properties.                                                             *)
(***************************************************************************)

(* What is left of the requests if nobody looks at their content.          *)
Outline(rows) == [id \in Request |-> IF rows[id] = Null THEN Null ELSE Copied(rows[id])]

(* Contents aside, the requests are a store that rbfork puts back: a       *)
(* status that was set in an abandoned block is taken back even though the *)
(* row does not say in which block it was set.                             *)
Store == INSTANCE ForkableStore WITH
           content <- Outline(fiorequests),
           opened <- [b \in DOMAIN opened |-> Outline(opened[b])],
           Content <- Rows(Request, FioRequest)

ImplementsStore == Store!Spec

(* A fork never gives a request another content than the block found, and  *)
(* costs only those their content whose status was changed in that block   *)
(* or later, on this branch or one abandoned since: a change in a block    *)
(* that stays does not count, nor one of another request, nor one of a     *)
(* request that an earlier fork removed.                                   *)
LossConfined ==
  \A b \in 1..head : \A id \in Request :
    RequestsAfter(b)[id] # Null =>
      /\ opened[b][id] # Null
      /\ \/ RequestsAfter(b)[id].content = opened[b][id].content
         \/ /\ RequestsAfter(b)[id].content = Null
            /\ \E c \in changed[id] : c >= b

(* CreateRBFioRequests.sql:83 raises if it "failed to find data required   *)
(* for rollback": once it did not raise, the requests a fork leaves have   *)
(* the content they had.                                                   *)
ContentRestored ==
  \A b \in 1..head : \A id \in Request :
    RequestsAfter(b)[id] # Null =>
      RequestsAfter(b)[id].content = opened[b][id].content
=============================================================================
