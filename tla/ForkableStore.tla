--------------------------- MODULE ForkableStore ---------------------------
(***************************************************************************)
(* What an audited table promises: a store whose content changes freely    *)
(* within a block, and which a fork to block b puts back exactly to the    *)
(* content it had when block b was first opened, however many blocks,      *)
(* updates and earlier forks lie in between.                               *)
(***************************************************************************)
EXTENDS Naturals

CONSTANT Content       \* the contents the store may have

VARIABLES head,        \* the newest block, 0 before the first one
          content,     \* the content now
          opened       \* opened[b]: the content when block b was opened

vars == <<head, content, opened>>

Init == /\ head = 0
        /\ content \in Content
        /\ opened = [b \in 1..0 |-> content]

NewBlock == /\ head' = head + 1
            /\ opened' = [b \in 1..(head + 1) |->
                             IF b = head + 1 THEN content ELSE opened[b]]
            /\ UNCHANGED content

Change == /\ head > 0
          /\ content' \in Content
          /\ UNCHANGED <<head, opened>>

Fork(b) == /\ content' = opened[b]
           /\ head' = b - 1
           /\ opened' = [c \in 1..(b - 1) |-> opened[c]]

Next == NewBlock \/ Change \/ \E b \in 1..head : Fork(b)

Spec == Init /\ [][Next]_vars
=============================================================================
