------------------------------ MODULE ByteSequence ------------------------------
(***************************************************************************)
(* What a ByteArray promises: a sequence of bytes and a position in it.    *)
(* Writing starts at the position, replaces what is there and makes the    *)
(* sequence longer; reading gives back what was written.                   *)
(***************************************************************************)
EXTENDS Integers, Sequences

CONSTANTS Bytes, MaxWrite     \* MaxWrite bounds one write

VARIABLES content, position, out     \* out: what the last read gave

vars == <<content, position, out>>

Inputs == UNION {[1 .. n -> Bytes] : n \in 1 .. MaxWrite}

Init == content = <<>> /\ position = 0 /\ out = <<>>

Overwrite(data) ==
    [i \in 1 .. (IF position + Len(data) > Len(content) THEN position + Len(data)
                 ELSE Len(content)) |->
        IF i \in position + 1 .. position + Len(data) THEN data[i - position] ELSE content[i]]

Write ==
    \E data \in Inputs :
        /\ content' = Overwrite(data)
        /\ position' = position + Len(data)
        /\ UNCHANGED out

Read ==
    \E n \in 1 .. Len(content) - position :
        /\ out' = SubSeq(content, position + 1, position + n)
        /\ position' = position + n
        /\ UNCHANGED content

\* Read somewhere else.
Peek ==
    \E p \in 0 .. Len(content) : \E n \in 1 .. Len(content) - p :
        /\ out' = SubSeq(content, p + 1, p + n)
        /\ UNCHANGED <<content, position>>

SetPosition ==
    /\ position' \in 0 .. Len(content)
    /\ UNCHANGED <<content, out>>

Clear ==
    /\ content' = <<>> /\ position' = 0
    /\ UNCHANGED out

Next == Write \/ Read \/ Peek \/ SetPosition \/ Clear

Spec == Init /\ [][Next]_vars
=============================================================================
