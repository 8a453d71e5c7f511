-------------------------- MODULE RelicSignatures --------------------------
(***************************************************************************)
(* The NFT signatures of handles beside their public addresses: the table  *)
(* nftsignatures, its audit table, the procedures that sign and remove     *)
(* signatures, and the part of rbfork that undoes them, in the same call   *)
(* as the addresses.  The handles are there throughout: RelicFork has what *)
(* becomes of a fork that has to delete them.                              *)
(***************************************************************************)
EXTENDS RelicAddresses

CONSTANTS
  Token,           \* chain code, contract address and token id
  Content          \* url, hash and metadata

VARIABLES
  nftsignatures,
  nftsignaturesaudit,
  signed           \* history: the signatures when each block was opened

signatureVars == <<nftsignatures, nftsignaturesaudit, signed>>

Signature ==
  [pk : 1..MaxPk, fk_block_number : (1..MaxBlock) \cup {Null},
   fk_handle_id : Handle \cup {Null}, token : Token, content : Content]

SignaturesTypeOK ==
  /\ nftsignatures \subseteq Signature
  /\ nftsignaturesaudit \subseteq
       [pk : 1..MaxPk, id : 1..MaxPk, op : 1..MaxBlock, row : Signature]
  /\ DOMAIN signed = 1..head

(* fk_handle_id = handleid is never true of NULL.                          *)
SignaturesOf(h) == {r \in nftsignatures : r.fk_handle_id = h /\ h # Null}
Signed(h, token) == {r \in SignaturesOf(h) : r.token = token}

-----------------------------------------------------------------------------
OpenBlock ==
  /\ InsBlocks
  /\ signed' = [b \in 1..(head + 1) |->
                  IF b = head + 1 THEN Values(nftsignatures) ELSE signed[b]]
  /\ UNCHANGED <<nftsignatures, nftsignaturesaudit>>

InsUpdNftSignatures(h, token, content) ==
  /\ head > 0 /\ RoomFor(nftsignatures, nftsignaturesaudit)
  /\ \/ /\ Signed(h, token) = {}
        /\ nftsignatures' = nftsignatures \cup
             {[pk |-> NewRowPk(nftsignatures, nftsignaturesaudit),
               fk_block_number |-> head, fk_handle_id |-> h, token |-> token,
               content |-> content]}
        /\ UNCHANGED nftsignaturesaudit
     \/ \E old \in Signed(h, token) :
          LET new == [old EXCEPT !.fk_block_number = head, !.content = content]
          IN /\ nftsignatures' = (nftsignatures \ {old}) \cup {new}
             /\ nftsignaturesaudit' = UpdateLog(nftsignaturesaudit, old, new)
  /\ UNCHANGED <<vars, signed>>

(* DELETE FROM nftsignatures, with its trigger.                            *)
Unsign(gone) ==
  /\ head > 0 /\ gone # {}
  /\ \A a \in DeleteLog(nftsignaturesaudit, gone, head) : a.pk <= MaxPk
  /\ nftsignatures' = nftsignatures \ gone
  /\ nftsignaturesaudit' = DeleteLog(nftsignaturesaudit, gone, head)
  /\ UNCHANGED <<vars, signed>>

DelNftSignature(h, token) == Unsign(Signed(h, token))
DelNftSignatures(h) == Unsign(SignaturesOf(h))

(* rbnftsignatures inserts a missing row with blockprevop, which is        *)
(* declared and never assigned.                                            *)
BlockPrevOpAssigned == FALSE

ForkOfSignatures(b) ==
  RolledBack(nftsignatures, nftsignaturesaudit, b, BlockPrevOpAssigned)

RbForkOfBoth(b) ==
  /\ RbFork(b)
  /\ \A r \in ForkOfSignatures(b) : r.pk <= MaxPk
  /\ nftsignatures' = ForkOfSignatures(b)
  /\ nftsignaturesaudit' =
       RolledBackLog(nftsignatures, nftsignaturesaudit, b, BlockPrevOpAssigned, head)
  /\ signed' = [c \in 1..(b - 1) |-> signed[c]]

-----------------------------------------------------------------------------
SignaturesInit ==
  /\ Init
  /\ nftsignatures = {} /\ nftsignaturesaudit = {}
  /\ signed = [b \in 1..0 |-> Values(nftsignatures)]

SignaturesNext ==
  \/ OpenBlock
  \/ AddressCall /\ UNCHANGED signatureVars
  \/ \E h \in Handle, t \in Token, c \in Content : InsUpdNftSignatures(h, t, c)
  \/ \E h \in Handle, t \in Token : DelNftSignature(h, t)
  \/ \E h \in Handle : DelNftSignatures(h)
  \/ \E b \in 1..head : RbForkOfBoth(b)

SignaturesSpec == SignaturesInit /\ [][SignaturesNext]_<<vars, signatureVars>>

-----------------------------------------------------------------------------
(***************************************************************************)
(* Properties.                                                             *)
(***************************************************************************)

(* The values of a table with the blocks left out.                         *)
Unstamped(values) ==
  {[f \in DOMAIN v \ {"fk_block_number"} |-> v[f]] : v \in DOMAIN values}

(* A fork loses no signature: whatever a block found is still there after  *)
(* a fork to it, though perhaps without its block and beside others.       *)
SignaturesKept ==
  \A b \in 1..head : Unstamped(signed[b]) \subseteq Unstamped(Values(ForkOfSignatures(b)))

(* CreateNFTSignaturesAudit.sql:3, "no constraint to provide delete        *)
(* rollbacks": a fork to the block in which a signature was deleted puts   *)
(* back the signatures that block found.                                   *)
DeleteRollsBack ==
  \A b \in 1..head : Values(ForkOfSignatures(b)) = signed[b]
=============================================================================
