----------------------------- MODULE DecodeText -----------------------------
(***************************************************************************)
(* How a segment of a page's text is decoded: internal/mdast/decode.go,    *)
(* byte by byte.                                                           *)
(*                                                                         *)
(* A character is a string of length one, and decoded text a sequence of   *)
(* the pieces of source it was decoded from: a plain or escaped character  *)
(* alone, a character reference whole.                                     *)
(***************************************************************************)
EXTENDS Integers, Sequences

CONSTANTS
    Punct, Digit, HexDigit, Alnum,   \* classes of characters
    Names,    \* the names of HTML5 entities
    MaxHex,   \* digits of a hexadecimal reference
    MaxDec    \* digits of a decimal one

ASSUME LimitsAssumption == MaxHex \in Nat /\ MaxDec \in Nat

\* What the decoder relies on of ASCII and of the table of entities.
ASSUME ClassesAssumption ==
    /\ {"\\", "&"} \subseteq Punct
    /\ ";" \notin Digit \cup HexDigit \cup Alnum
    /\ "#" \notin Alnum /\ "x" \notin Digit
ASSUME NamesAssumption == \A name \in Names : name \in Seq(Alnum)

VARIABLES
    frame,   \* the decoding of a segment
    pc

-----------------------------------------------------------------------------
\* Places in a text are counted from zero.
At(s, k) == s[k + 1]
Slice(s, a, b) == SubSeq(s, a + 1, b)

\* Every character for itself.
Plain(s) == [k \in 1..Len(s) |-> <<s[k]>>]

-----------------------------------------------------------------------------
(* What a text means: an escape stands for the punctuation after it, a     *)
(* reference for its character, and any other character for itself.        *)

\* A reference by the book: "&", a name or a number, ";".
IsReference(t) ==
    /\ Len(t) > 2 /\ t[1] = "&" /\ t[Len(t)] = ";"
    /\ LET body == SubSeq(t, 2, Len(t) - 1)
           Number(d, class, most) == Len(d) \in 1..most /\ \A k \in 1..Len(d) : d[k] \in class IN
       \/ body \in Names
       \/ body[1] = "#" /\ Number(Tail(body), Digit, MaxDec)
       \/ body[1] = "#" /\ Len(body) > 1 /\ body[2] = "x" /\ Number(SubSeq(body, 3, Len(body)), HexDigit, MaxHex)

Escapes(s, i) == At(s, i) = "\\" /\ i + 1 < Len(s) /\ At(s, i + 1) \in Punct

\* Where a reference that begins at i may end.
Stops(s, i) == {j \in (i + 1)..Len(s) : IsReference(Slice(s, i, j))}

\* Where what begins at i ends.
After(s, i) ==
    IF Escapes(s, i) THEN i + 2
    ELSE IF Stops(s, i) # {} THEN CHOOSE j \in Stops(s, i) : TRUE
    ELSE i + 1

Piece(s, i) == Slice(s, IF Escapes(s, i) THEN i + 1 ELSE i, After(s, i))

\* The pieces from every place on.
Meaning(s) ==
    LET from[i \in 0..Len(s)] ==
            IF i = Len(s) THEN <<>> ELSE <<Piece(s, i)>> \o from[After(s, i)]
    IN  from

Decoded(s) == Meaning(s)[0]

-----------------------------------------------------------------------------
(* What the decoder looks ahead for.                                       *)

ReadWhile(s, start, class) ==
    CHOOSE j \in start..Len(s) :
        /\ \A k \in start..(j - 1) : At(s, k) \in class
        /\ j = Len(s) \/ At(s, j) \notin class

\* Where a reference whose digits begin at start ends: none, or the place of its ";".
Ends(s, start, class, most) ==
    LET j == ReadWhile(s, start, class) IN
    {k \in {j} : k > start /\ k < Len(s) /\ At(s, k) = ";" /\ k - start <= most}

\* A bug for TLC to find: a digit too many.
LongReference(s, i) ==
    LET next == i + 1 IN
    IF next < Len(s) /\ At(s, next) = "#"
    THEN IF next + 1 = Len(s) THEN {}
         ELSE IF At(s, next + 1) = "x" THEN Ends(s, next + 2, HexDigit, MaxHex)
         ELSE Ends(s, next + 1, Digit, MaxDec + 1)
    ELSE {k \in Ends(s, next, Alnum, Len(s)) : Slice(s, next, k) \in Names}

\* Where the reference that begins at the "&" at i ends, if one does.
Reference(s, i) ==
    LET next == i + 1 IN
    IF next < Len(s) /\ At(s, next) = "#"
    THEN IF next + 1 = Len(s) THEN {}
         ELSE IF At(s, next + 1) = "x" THEN Ends(s, next + 2, HexDigit, MaxHex)
         ELSE Ends(s, next + 1, Digit, MaxDec)
    ELSE {k \in Ends(s, next, Alnum, Len(s)) : Slice(s, next, k) \in Names}

-----------------------------------------------------------------------------
(* The decoder.  Between segments pc is what the caller makes it.          *)

NoFrame == [source |-> <<>>, n |-> 0, i |-> 0, out |-> <<>>, escaped |-> FALSE]

Limit == Len(frame.source)

Begin(segment) ==
    /\ pc = "walk" /\ pc' = "decode"
    /\ frame' = [NoFrame EXCEPT !.source = segment]

Char == At(frame.source, frame.i)

Escaping == frame.escaped /\ Char \in Punct

\* An escaped character: what was plain before the backslash is written, and the
\* character is plain.
Escape ==
    /\ pc = "decode" /\ frame.i < Limit
    /\ Escaping
    /\ frame' = [frame EXCEPT !.out = @ \o Plain(Slice(frame.source, frame.n, frame.i - 1)),
                              !.n = frame.i, !.i = @ + 1, !.escaped = FALSE]
    /\ UNCHANGED pc

\* A reference: what was plain before it, and its character.
Refer ==
    /\ pc = "decode" /\ frame.i < Limit
    /\ ~Escaping /\ Char = "&"
    /\ \E j \in Reference(frame.source, frame.i) :
           frame' = [frame EXCEPT !.out = @ \o Plain(Slice(frame.source, frame.n, frame.i))
                                            \o <<Slice(frame.source, frame.i, j + 1)>>,
                                  !.n = j + 1, !.i = j + 1]
    /\ UNCHANGED pc

\* A bug for TLC to find: the cursor is put back in front of the "&" again.
StuckPass ==
    /\ pc = "decode" /\ frame.i < Limit
    /\ ~Escaping /\ (Char = "&" => Reference(frame.source, frame.i) = {})
    /\ frame' = [frame EXCEPT !.i = IF Char = "&" THEN @ ELSE @ + 1, !.escaped = Char = "\\"]
    /\ UNCHANGED pc

\* Any other character waits to be written; the cursor is back where it was if it
\* looked for a reference.
Pass ==
    /\ pc = "decode" /\ frame.i < Limit
    /\ ~Escaping /\ (Char = "&" => Reference(frame.source, frame.i) = {})
    /\ frame' = [frame EXCEPT !.i = @ + 1, !.escaped = Char = "\\"]
    /\ UNCHANGED pc

\* What is written and the rest, which is plain.
Written == frame.out \o Plain(Slice(frame.source, frame.n, Limit))

End ==
    /\ pc = "decode" /\ frame.i = Limit
    /\ pc' = "walk" /\ frame' = NoFrame

\* The caller's own steps.
Elsewhere == pc = "walk" /\ pc' \in {"walk", "done"} /\ UNCHANGED frame

DecodeInit == pc = "walk" /\ frame = NoFrame

DecodeNext ==
    (\E segment \in Seq(STRING) : Begin(segment)) \/ Escape \/ Refer \/ Pass \/ End \/ Elsewhere

DecodeSpec == DecodeInit /\ [][DecodeNext]_<<frame, pc>>

-----------------------------------------------------------------------------
\* The cursors stay in the segment, in order.
CursorsOK ==
    /\ pc \in {"walk", "decode", "done"}
    /\ 0 <= frame.n /\ frame.n <= frame.i /\ frame.i <= Limit

\* At every byte, what is written, what is plain and what is to come are together what
\* the segment means: no escape or reference is lost, taken twice or half taken, however
\* the cursor jumped.
DecodedSoFar ==
    pc = "decode" =>
        LET at == IF frame.escaped THEN frame.i - 1 ELSE frame.i IN
        Decoded(frame.source) =
            frame.out \o Plain(Slice(frame.source, frame.n, at)) \o Meaning(frame.source)[at]

=============================================================================
