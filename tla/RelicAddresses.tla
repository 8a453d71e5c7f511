--------------------------- MODULE RelicAddresses ---------------------------
(***************************************************************************)
(* The public addresses mapped to handles: the table pubaddresses, its     *)
(* audit table, the procedures that map, change and remove addresses, and  *)
(* the part of rbfork that undoes them.  A handle is what the SELECT on    *)
(* handles found, Null if there is none.                                   *)
(***************************************************************************)
EXTENDS DeletableTable

CONSTANTS
  Handle,          \* what the SELECT on handles finds
  Code,            \* pairs of a chain code and a token code
  FioCode,         \* the pair 'FIO', 'FIO'
  Address,         \* public addresses
  MaxBlock         \* bound on the block numbers

ASSUME MaxBlockAssumption == MaxBlock \in Nat

VARIABLES
  head,            \* the newest block
  pubaddresses,
  pubaddressesaudit,
  opened           \* history: the addresses when each block was opened

vars == <<head, pubaddresses, pubaddressesaudit, opened>>

PubAddress ==
  [pk : 1..MaxPk, fk_block_number : 1..MaxBlock, fk_handle_id : Handle \cup {Null},
   code : Code, pub_address : Address]

TypeOK ==
  /\ head \in 0..MaxBlock
  /\ pubaddresses \subseteq PubAddress
  /\ pubaddressesaudit \subseteq
       [pk : 1..MaxPk, id : 1..MaxPk, op : 1..MaxBlock, row : PubAddress]
  /\ DOMAIN opened = 1..head

(* fk_handle_id = handleid is never true of NULL.                          *)
OfHandle(h) == {r \in pubaddresses : r.fk_handle_id = h /\ h # Null}
Mapped(h, code) == {r \in OfHandle(h) : r.code = code}

-----------------------------------------------------------------------------
InsBlocks ==
  /\ head < MaxBlock
  /\ head' = head + 1
  /\ opened' = [b \in 1..(head + 1) |->
                  IF b = head + 1 THEN Values(pubaddresses) ELSE opened[b]]
  /\ UNCHANGED <<pubaddresses, pubaddressesaudit>>

InsUpdPubAddresses(h, code, address) ==
  /\ head > 0 /\ RoomFor(pubaddresses, pubaddressesaudit)
  /\ \/ /\ Mapped(h, code) = {}
        /\ pubaddresses' = pubaddresses \cup
             {[pk |-> NewRowPk(pubaddresses, pubaddressesaudit),
               fk_block_number |-> head, fk_handle_id |-> h, code |-> code,
               pub_address |-> address]}
        /\ UNCHANGED pubaddressesaudit
     \/ \E old \in Mapped(h, code) :
          LET new == [old EXCEPT !.fk_block_number = head, !.pub_address = address]
          IN /\ pubaddresses' = (pubaddresses \ {old}) \cup {new}
             /\ pubaddressesaudit' = UpdateLog(pubaddressesaudit, old, new)
  /\ UNCHANGED <<head, opened>>

(* DELETE FROM pubaddresses, with its trigger.                             *)
Delete(gone) ==
  /\ head > 0 /\ gone # {}
  /\ \A a \in DeleteLog(pubaddressesaudit, gone, head) : a.pk <= MaxPk
  /\ pubaddresses' = pubaddresses \ gone
  /\ pubaddressesaudit' = DeleteLog(pubaddressesaudit, gone, head)
  /\ UNCHANGED <<head, opened>>

DelPubAddress(h, code, address) ==
  Delete({r \in Mapped(h, code) : r.pub_address = address})

DelPubAddresses(h) == Delete(OfHandle(h))

ClearPubAddresses(h) == Delete({r \in OfHandle(h) : r.code # FioCode})

(* Mutation: an unassigned variable, as in rbnftsignatures.                *)
MutStamped == FALSE

(* rbpubaddresses inserts a missing row with the block of its audit entry. *)
Stamped == TRUE

RbFork(b) ==
  /\ \A r \in RolledBack(pubaddresses, pubaddressesaudit, b, Stamped) : r.pk <= MaxPk
  /\ pubaddresses' = RolledBack(pubaddresses, pubaddressesaudit, b, Stamped)
  /\ pubaddressesaudit' = RolledBackLog(pubaddresses, pubaddressesaudit, b, Stamped, head)
  /\ head' = b - 1
  /\ opened' = [c \in 1..(b - 1) |-> opened[c]]

-----------------------------------------------------------------------------
Init ==
  /\ head = 0
  /\ pubaddresses = {} /\ pubaddressesaudit = {}
  /\ opened = [b \in 1..0 |-> Values(pubaddresses)]

AddressCall ==
  \/ \E h \in Handle, c \in Code, a \in Address : InsUpdPubAddresses(h, c, a)
  \/ \E h \in Handle, c \in Code, a \in Address : DelPubAddress(h, c, a)
  \/ \E h \in Handle : DelPubAddresses(h)
  \/ \E h \in Handle : ClearPubAddresses(h)

Next ==
  \/ InsBlocks
  \/ AddressCall
  \/ \E b \in 1..head : RbFork(b)

Spec == Init /\ [][Next]_vars

-----------------------------------------------------------------------------
(***************************************************************************)
(* Properties.                                                             *)
(***************************************************************************)

(* A fork to any block leaves the addresses that block found: deleted ones *)
(* are inserted again, changed ones put back, new ones gone, even if a row *)
(* was inserted again by an earlier fork and its older audit entries name  *)
(* an identity that no longer exists.                                      *)
ForkExact ==
  \A b \in 1..head :
    Values(RolledBack(pubaddresses, pubaddressesaudit, b, Stamped)) = opened[b]

(* A handle has at most one address for a chain and token, though no       *)
(* constraint says so: an address that is mapped again after a deletion    *)
(* never meets the deleted row that a fork brings back.                    *)
OneAddress ==
  \A r, s \in pubaddresses :
    r.fk_handle_id = s.fk_handle_id /\ r.fk_handle_id # Null /\ r.code = s.code => r = s

(* No entry of the audit table outlives the block it was made in, or the   *)
(* block its row was written in: the UPDATEs of a fork log entries with    *)
(* the block of the restored row, which only the DELETE by the block of    *)
(* the data removes.                                                       *)
LogKept ==
  /\ \A a \in pubaddressesaudit : a.op <= head /\ a.row.fk_block_number <= a.op
  /\ \A a, c \in pubaddressesaudit : a.id = c.id /\ a.pk < c.pk =>
       a.op <= c.row.fk_block_number
=============================================================================
