------------------------------ MODULE Markdown ------------------------------
(***************************************************************************)
(* How a page's Markdown becomes an mdast tree.                            *)
(*   internal/mdast/mdast.go    the walk of goldmark's tree                *)
(*   internal/mdast/node.go     the nodes                                  *)
(*                                                                         *)
(* goldmark's parser is outside the program: its tree is the input.  Both  *)
(* trees are sequences of their nodes in document order, each with the     *)
(* place of its parent; what lies below a node follows it.  The Go code    *)
(* recurs over containers: a call that is under way is an entry of calls,  *)
(* and the segments of text are decoded byte by byte, as DecodeText has    *)
(* it.  Offsets into the source are line numbers, which is all that is     *)
(* asked of them.                                                          *)
(***************************************************************************)
EXTENDS DecodeText, SequencesExt

CONSTANTS
    Inputs    \* trees of goldmark

VARIABLES
    input,   \* the tree to be converted
    at,      \* the place of the node that comes next
    calls,   \* the calls under way: what they convert, where to, and text that is not a node yet
    out      \* the tree made so far

vars == <<input, at, calls, out, frame, pc>>

-----------------------------------------------------------------------------
Blank == " "
Newline == "\n"

\* Of a string: it is not there.
Unset == ""

-----------------------------------------------------------------------------
(* goldmark's tree.                                                        *)

\* A node: its text, the line that closes a block of HTML, the lines it has a segment
\* of, its parent, and the last place below it.
Source == [kind |-> Unset, seg |-> <<>>, closure |-> <<>>, info |-> <<>>, mark |-> Unset,
           label |-> Unset, index |-> 0, lines |-> {}, parent |-> 0, last |-> 0]

InlineKinds == {"text", "string", "checkbox", "emphasis", "strikethrough", "codespan", "link",
                "autolink", "image", "rawhtml", "footnotelink", "backlink"}

BlockKinds == {"paragraph", "textblock", "heading", "rule", "quote", "list", "fence", "indented",
               "htmlblock", "definition", "table", "other"}

\* What a node may hold.  A footnote that does not end in a paragraph has its backlinks
\* for itself.
Holds(kind) ==
    CASE kind = "document" -> BlockKinds \cup {"footnotes"}
      [] kind \in {"quote", "item"} -> BlockKinds
      [] kind = "footnote" -> BlockKinds \cup {"backlink"}
      [] kind = "footnotes" -> {"footnote"}
      [] kind = "list" -> {"item"}
      [] kind = "table" -> {"row"}
      [] kind = "row" -> {"cell"}
      [] kind \in {"paragraph", "textblock", "heading", "cell", "emphasis", "strikethrough",
                   "link", "image"} -> InlineKinds
      [] kind = "codespan" -> {"text"}
      [] OTHER -> {}

\* The first child of a node comes next to it, and its next sibling next to what is
\* below it.
IsTree(t) ==
    /\ t # <<>> /\ t[1].parent = 0 /\ t[1].last = Len(t)
    /\ \A i \in DOMAIN t : /\ t[i].last \in i..Len(t)
                           /\ \A j \in i..t[i].last : t[j].last <= t[i].last
                           /\ i < t[i].last => t[i + 1].parent = i
    /\ \A i \in 2..Len(t) : LET p == t[i].parent IN
           /\ p \in 1..(i - 1) /\ i <= t[p].last
           /\ t[i].last < t[p].last => t[t[i].last + 1].parent = p

\* What goldmark makes of a page: after a backlink come others at most, and a footnote
\* that is referred to is there, once.
IsPage(t) ==
    /\ t[1].kind = "document"
    /\ \A i \in 2..Len(t) : t[i].kind \in Holds(t[t[i].parent].kind)
    /\ \A i \in 2..Len(t) :
           t[i].kind = "backlink" /\ t[i].last < t[t[i].parent].last => t[t[i].last + 1].kind = "backlink"
    /\ \A i, j \in DOMAIN t : t[i].kind = "footnote" /\ t[j].kind = "footnote" /\ t[i].index = t[j].index => i = j
    /\ \A i \in DOMAIN t : t[i].kind = "footnotelink" =>
           \E j \in DOMAIN t : t[j].kind = "footnote" /\ t[j].index = t[i].index

SourceNodes == [kind : STRING, seg : Seq(STRING), closure : Seq(STRING), info : Seq(STRING), mark : STRING,
                label : STRING, index : Int, lines : SUBSET Nat, parent : Nat, last : Nat]

ASSUME InputsAssumption == \A t \in Inputs : t \in Seq(SourceNodes) /\ IsTree(t) /\ IsPage(t)

Kind(i) == input[i].kind

\* The places below i, and those of them that are its children.
Below(i) == (i + 1)..input[i].last
Children(i) == {j \in Below(i) : input[j].parent = i}

-----------------------------------------------------------------------------
(* mdast's tree.                                                           *)

\* A node, with its parent.  from is history: the place of what it was made of, or of
\* the container for text and breaks.
Node == [type |-> Unset, value |-> <<>>, lang |-> <<>>, meta |-> <<>>, label |-> Unset, identifier |-> Unset,
         mark |-> Unset, spread |-> FALSE, checked |-> Unset, parent |-> 0, from |-> 0]

Typed(type) == [Node EXCEPT !.type = type]

Valued(type, value) == [Node EXCEPT !.type = type, !.value = value]

\* Case is folded (and white space, of which no label here has any).
Identifier(label) == IF label = "F" THEN "f" ELSE label

Labelled(node, label) == [node EXCEPT !.label = label, !.identifier = Identifier(label)]

Put(node, parent, i) == [node EXCEPT !.parent = parent, !.from = i]

Phrasing == {"text", "break", "emphasis", "strong", "delete", "inlineCode", "link", "image",
             "linkReference", "imageReference", "html", "footnoteReference"}

Flow == {"paragraph", "heading", "thematicBreak", "blockquote", "list", "code", "html",
         "definition", "table"}

\* What a node of mdast may hold.
Content(type) ==
    CASE type = "root" -> Flow \cup {"footnoteDefinition"}
      [] type \in {"blockquote", "listItem", "footnoteDefinition"} -> Flow
      [] type = "list" -> {"listItem"}
      [] type = "table" -> {"tableRow"}
      [] type = "tableRow" -> {"tableCell"}
      [] type \in {"paragraph", "heading", "tableCell", "emphasis", "strong", "delete",
                   "link", "linkReference"} -> Phrasing
      [] OTHER -> {}

-----------------------------------------------------------------------------
(* Inline content.                                                         *)

\* The end of a line, and one that shows.
NL == <<<<Newline>>>>
BR == <<<<"br">>>>

\* A bug for TLC to find: a node even if there is no text.
FaultyFlush(c) == Append(out, Put(Valued("text", c.buf), c.place, c.node))

\* The text a call has gathered becomes a node, unless there is none.
Flush(c) == IF c.buf = <<>> THEN out ELSE Append(out, Put(Valued("text", c.buf), c.place, c.node))

Break(c) == Put(Typed("break"), c.place, c.node)

\* A bug for TLC to find: a hard break before the text it ends.
FaultyReadText(c, decoded, mark) ==
    LET read == c.buf \o decoded \o (IF mark = "soft" THEN NL ELSE <<>>) IN
    IF mark = "hard" THEN [out |-> Append(out, Break(c)), buf |-> read]
    ELSE [out |-> out, buf |-> read]

\* What decoded text and the end of its line do.
ReadText(c, decoded, mark) ==
    LET read == c.buf \o decoded \o (IF mark = "soft" THEN NL ELSE <<>>) IN
    IF mark = "hard" THEN [out |-> Append(Flush([c EXCEPT !.buf = read]), Break(c)), buf |-> <<>>]
    ELSE [out |-> out, buf |-> read]

\* The decoded text of an image's descendants.
TextContent(i) ==
    FlattenSeq([k \in 1..(input[i].last - i) |->
        IF Kind(i + k) = "text" THEN Decoded(input[i + k].seg) ELSE <<>>])

\* The text of a code span, as it stands.
CodeSpanValue(i) == FlattenSeq([k \in 1..(input[i].last - i) |-> Plain(input[i + k].seg)])

Footnotes == {i \in DOMAIN input : Kind(i) = "footnote"}

\* A bug for TLC to find: the indexes are taken for places in the list.
FaultyFootnoteLabel(index) ==
    LET fs == {f \in Footnotes : input[f].index = index + 1} IN
    IF fs = {} THEN Unset ELSE input[CHOOSE f \in fs : TRUE].label

\* goldmark knows a footnote by its index, mdast by its label.
FootnoteLabel(index) ==
    LET fs == {f \in Footnotes : input[f].index = index} IN
    IF fs = {} THEN Unset ELSE input[CHOOSE f \in fs : TRUE].label

\* What an inline node becomes, as a child of the node at place p: one node or none, or
\* a link with its text.  here is the place it gets.
InlineNode(i, p, here) ==
    LET n == input[i]
        One(node) == <<Put(node, p, i)>> IN
    CASE n.kind = "emphasis" -> One(Typed(IF n.mark = "2" THEN "strong" ELSE "emphasis"))
      [] n.kind = "strikethrough" -> One(Typed("delete"))
      [] n.kind = "codespan" -> One(Valued("inlineCode", CodeSpanValue(i)))
      [] n.kind = "link" ->
             One(IF n.label = Unset THEN Typed("link")
                 ELSE [Labelled(Typed("linkReference"), n.label) EXCEPT !.mark = n.mark])
      [] n.kind = "autolink" -> One(Typed("link")) \o <<Put(Valued("text", Plain(n.seg)), here, i)>>
      [] n.kind = "image" ->
             One(IF n.label = Unset THEN Valued("image", TextContent(i))
                 ELSE [Labelled(Valued("imageReference", TextContent(i)), n.label) EXCEPT !.mark = n.mark])
      [] n.kind = "rawhtml" -> One(Valued("html", Plain(n.seg)))
      [] n.kind = "footnotelink" -> One(Labelled(Typed("footnoteReference"), FootnoteLabel(n.index)))
      [] OTHER -> <<>>

-----------------------------------------------------------------------------
(* Blocks.                                                                 *)

\* Without the newline that ends the last line.
Untrailed(s) == IF s # <<>> /\ s[Len(s)] = Newline THEN SubSeq(s, 1, Len(s) - 1) ELSE s

LinesValue(n) == Plain(Untrailed(n.seg))

\* The line that closes a block of HTML is put after lines that have lost their newline.
HtmlValue(n) == Plain(Untrailed(Untrailed(n.seg) \o n.closure))

\* The first and the last place a node covers, or -1.
NodeLines(i) == UNION {input[j].lines : j \in {i} \cup Below(i)}
NodeStart(i) == IF NodeLines(i) = {} THEN -1 ELSE CHOOSE l \in NodeLines(i) : \A m \in NodeLines(i) : l <= m
NodeStop(i) == IF NodeLines(i) = {} THEN -1 ELSE CHOOSE l \in NodeLines(i) : \A m \in NodeLines(i) : m <= l

\* Pairs of siblings below i.
Neighbours(i) == {pair \in Children(i) \X Children(i) : pair[2] = input[pair[1]].last + 1}

\* Two children of an item with two newlines between what they cover.
ItemSpread(i) ==
    \E pair \in Neighbours(i) :
        LET stop == NodeStop(pair[1])
            start == NodeStart(pair[2]) IN
        stop >= 0 /\ start >= stop /\ start - stop >= 2

\* The checkbox is the first child of the first.
TaskChecked(i) ==
    IF i + 1 \in Children(i) /\ i + 2 \in Children(i + 1) /\ Kind(i + 2) = "checkbox"
    THEN input[i + 2].mark ELSE Unset

\* The places from the first to the last of some.
Span(s, places) ==
    IF places = {} THEN <<>>
    ELSE SubSeq(s, CHOOSE k \in places : \A j \in places : k <= j,
                   CHOOSE k \in places : \A j \in places : j <= k)

\* Where s is not blank, from a place on.
Printed(s, from) == {k \in from..Len(s) : s[k] # Blank}

\* The info string of a fence: a language, and the rest.
FencedCode(n) ==
    LET info == Span(n.info, Printed(n.info, 1))
        gap == {k \in 1..Len(info) : info[k] = Blank}
        cut == CHOOSE k \in gap : \A j \in gap : k <= j IN
    [Valued("code", LinesValue(n)) EXCEPT
        !.lang = IF gap = {} THEN info ELSE SubSeq(info, 1, cut - 1),
        !.meta = IF gap = {} THEN <<>> ELSE Span(info, Printed(info, cut))]

\* What a block becomes, as a child of the node at place p.  The list of footnotes is
\* none, and what it holds are children of the root.
Block(i, p) ==
    LET n == input[i]
        One(node) == <<Put(node, p, i)>> IN
    CASE n.kind \in {"paragraph", "textblock"} -> One(Typed("paragraph"))
      [] n.kind = "heading" -> One(Typed("heading"))
      [] n.kind = "rule" -> One(Typed("thematicBreak"))
      [] n.kind = "quote" -> One(Typed("blockquote"))
      [] n.kind = "list" -> One([Typed("list") EXCEPT !.spread = n.mark # "tight"])
      [] n.kind = "item" -> One([Typed("listItem") EXCEPT !.spread = ItemSpread(i), !.checked = TaskChecked(i)])
      [] n.kind = "fence" -> One(FencedCode(n))
      [] n.kind = "indented" -> One(Valued("code", LinesValue(n)))
      [] n.kind = "htmlblock" -> One(Valued("html", HtmlValue(n)))
      [] n.kind = "definition" -> One(Labelled(Typed("definition"), n.label))
      [] n.kind = "table" -> One(Typed("table"))
      [] n.kind = "row" -> One(Typed("tableRow"))
      [] n.kind = "cell" -> One(Typed("tableCell"))
      [] n.kind = "footnote" -> One(Labelled(Typed("footnoteDefinition"), n.label))
      [] OTHER -> <<>>

-----------------------------------------------------------------------------
(* The walk.                                                               *)

\* What is walked, child by child; anything else is converted at once.
Walked == {"paragraph", "textblock", "heading", "quote", "list", "item", "table", "row", "cell",
           "footnotes", "footnote", "emphasis", "strikethrough", "link"}

Call(i, place) == [node |-> i, place |-> place, buf |-> <<>>]

Init ==
    /\ input \in Inputs
    /\ at = 2
    /\ calls = <<Call(1, 1)>>
    /\ out = <<Put(Typed("root"), 0, 1)>>
    /\ DecodeInit

Top == calls[Len(calls)]

\* The call gathers text anew.
Emptied == [calls EXCEPT ![Len(calls)].buf = <<>>]

\* The next child of the call is of one of the kinds.
Coming(kinds) == pc = "walk" /\ at <= input[Top.node].last /\ Kind(at) \in kinds

\* A segment of text is about to be decoded.
Segment ==
    /\ Coming({"text", "string"})
    /\ Begin(input[at].seg)
    /\ UNCHANGED <<input, at, calls, out>>

\* The decoder takes its next step.
Byte == (Escape \/ Refer \/ Pass) /\ UNCHANGED <<input, at, calls, out>>

\* The segment is decoded.
Join ==
    /\ End
    /\ LET read == ReadText(Top, Written, input[at].mark) IN
           /\ out' = read.out
           /\ calls' = [calls EXCEPT ![Len(calls)].buf = read.buf]
    /\ at' = at + 1
    /\ UNCHANGED input

\* A checkbox is the item's.
Skip ==
    /\ Coming({"checkbox"})
    /\ at' = at + 1
    /\ UNCHANGED <<input, calls, out, frame, pc>>

\* What is to be walked begins a call, and of anything else nothing is left.
Descend(place) ==
    IF Kind(at) \in Walked
    THEN calls' = Append(Emptied, Call(at, place)) /\ at' = at + 1
    ELSE calls' = Emptied /\ at' = input[at].last + 1

\* Any other inline node: it follows the text before it.
Place ==
    /\ Coming(InlineKinds \ {"text", "string", "checkbox"})
    /\ LET here == Len(Flush(Top)) + 1 IN
           out' = Flush(Top) \o InlineNode(at, Top.place, here) /\ Descend(here)
    /\ UNCHANGED <<input, frame, pc>>

\* A block.
PlaceBlock ==
    /\ pc = "walk" /\ at <= input[Top.node].last /\ Kind(at) \notin InlineKinds
    /\ out' = out \o Block(at, Top.place)
    /\ Descend(IF Kind(at) = "footnotes" THEN Top.place ELSE Len(out) + 1)
    /\ UNCHANGED <<input, frame, pc>>

\* A call has come to the end of its node.
Return ==
    /\ pc = "walk" /\ at > input[Top.node].last
    /\ out' = Flush(Top)
    /\ calls' = Front(calls)
    /\ pc' = IF Len(calls) = 1 THEN "done" ELSE "walk"
    /\ UNCHANGED <<input, at, frame>>

Next == Segment \/ Byte \/ Join \/ Skip \/ Place \/ PlaceBlock \/ Return

\* The conversion runs in the request that asks for it, and nothing waits in it.
Spec == Init /\ [][Next]_vars /\ WF_vars(Next)

-----------------------------------------------------------------------------
\* Every node holds what mdast lets it hold, and the cursors of the decoder stay in
\* its segment.
TypeOK ==
    /\ CursorsOK
    /\ at \in 2..(Len(input) + 1)
    /\ \A k \in 2..Len(out) : out[k].parent \in 1..(k - 1) /\ out[k].type \in Content(out[out[k].parent].type)

\* The node that what is at i hangs on: the list of footnotes is left out.
Above(i) == LET p == input[i].parent IN IF Kind(p) = "footnotes" THEN input[p].parent ELSE p

\* At every step the tree is one mdast allows and hangs together as goldmark's does,
\* and text that stands together is one node, none of it empty: in no container,
\* finished or not, does text follow text.
WellFormed ==
    /\ TypeOK
    /\ \A k \in 2..Len(out) :
           LET p == out[k].parent IN
           out[p].from = IF out[k].type \in {"text", "break"} THEN out[k].from ELSE Above(out[k].from)
    /\ \A k \in DOMAIN out : out[k].type = "text" =>
           /\ out[k].value # <<>> \/ Kind(out[k].from) = "autolink"
           /\ k < Len(out) => ~(out[k + 1].type = "text" /\ out[k + 1].parent = out[k].parent)

\* The words of a tree, in order.
Inked(s) == FlattenSeq([k \in DOMAIN s |-> IF s[k] = Blank THEN <<>> ELSE <<<<s[k]>>>>])

Words(n) == Inked(n.lang) \o Inked(n.meta) \o n.value \o (IF n.type = "break" THEN BR ELSE <<>>)

Inside(i, kind) == \E m \in 1..(i - 1) : Kind(m) = kind /\ i <= input[m].last

\* The lines of a block of HTML as they stand, without the newline that is lost: the one
\* before the line that closes it, or a second at its end if there is no such line.
KeptLines(n) ==
    LET lines == Untrailed(n.seg \o n.closure)
        lost == IF n.closure = <<>> THEN Len(lines) ELSE Len(n.seg) IN
    IF lost \in DOMAIN lines /\ lines[lost] = Newline THEN RemoveAt(lines, lost) ELSE lines

\* The words of the source: decoded, or where they are raw as they stand.  Of the text
\* of an image, code too, all is decoded; its bare URLs and ends of lines are left out.
SourceWords(i) ==
    LET n == input[i] IN
    IF Inside(i, "image") THEN IF n.kind = "text" THEN Decoded(n.seg) ELSE <<>>
    ELSE IF Inside(i, "codespan") THEN Plain(n.seg)
    ELSE CASE n.kind \in {"text", "string"} ->
                  Decoded(n.seg) \o (CASE n.mark = "soft" -> NL [] n.mark = "hard" -> BR [] OTHER -> <<>>)
           [] n.kind \in {"autolink", "rawhtml"} -> Plain(n.seg)
           [] n.kind = "fence" -> Inked(n.info) \o LinesValue(n)
           [] n.kind = "indented" -> LinesValue(n)
           [] n.kind = "htmlblock" -> Plain(KeptLines(n))
           [] OTHER -> <<>>

\* Nothing a reader reads is lost, doubled or moved on the way, but that one newline of
\* a block of HTML: at every step, however deep, the words of the tree so far and of the
\* text at hand are those of the nodes that were passed.
NothingLost ==
    FlattenSeq([k \in DOMAIN out |-> Words(out[k])]) \o (IF calls = <<>> THEN <<>> ELSE Top.buf)
        = FlattenSeq([i \in 1..(at - 1) |-> SourceWords(i)])

\* A footnote has one definition, and a reference to it leads there and nowhere else,
\* unless two labels differ in case alone.
FootnotesResolve ==
    pc = "done" /\ (\A f, g \in Footnotes : f # g => Identifier(input[f].label) # Identifier(input[g].label)) =>
        LET Definitions == {k \in DOMAIN out : out[k].type = "footnoteDefinition"} IN
        /\ \A f \in Footnotes : \E d \in Definitions :
               {k \in Definitions : out[k].from = f} = {d}
        /\ \A k \in DOMAIN out : out[k].type = "footnoteReference" => \E d \in Definitions :
               /\ {e \in Definitions : out[e].identifier = out[k].identifier} = {d}
               /\ input[out[d].from].index = input[out[k].from].index

\* Every page is converted: the cursors always come to the end, and every call returns.
ConversionEnds == <>(pc = "done")

=============================================================================
