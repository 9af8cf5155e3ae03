----------------------------- MODULE MCMarkdown -----------------------------
(* Instances of Markdown for TLC: every short segment of text, paragraphs  *)
(* of a few inline nodes, and documents of a few blocks.                   *)
EXTENDS Markdown, TLC

CONSTANT MaxSegment   \* bound: characters of a segment

MCPunct == {"\\", "&", "#", ";"}
MCDigit == {"1"}
MCHexDigit == {"1", "a"}
MCAlnum == {"1", "a", "x"}
MCNames == {<<"a">>}

\* Trees are written down as nodes within nodes, and then put in document order.
Leaf(kind, seg) == ("kids" :> <<>> @@ "end" :> 0) @@ [Source EXCEPT !.kind = kind, !.seg = seg]
Of(kind, kids) == [Leaf(kind, <<>>) EXCEPT !.kids = kids]
Marked(n, mark) == [n EXCEPT !.mark = mark]
Named(n, label) == [n EXCEPT !.label = label]

RECURSIVE Ordered(_, _, _)
Ordered(kids, parent, here) ==
    IF kids = <<>> THEN <<>>
    ELSE LET n == Head(kids)
             below == Ordered(n.kids, here, here + 1)
             last == here + Len(below) IN
         <<[f \in DOMAIN Source |-> CASE f = "parent" -> parent [] f = "last" -> last [] OTHER -> n[f]]>>
             \o below \o Ordered(Tail(kids), parent, last + 1)

Page(blocks) == Ordered(<<Of("document", blocks)>>, 0, 1)

Text(seg, mark) == Marked(Leaf("text", seg), mark)
A == Text(<<"a">>, "")
Amp == Text(<<"\\", "&", "a", ";">>, "soft")

Segments == UNION {[1..n -> Punct \cup Alnum] : n \in 0..MaxSegment}

Inlines ==
    {A, Amp, Text(<<"&", "a", ";">>, "hard"), Text(<<>>, "hard"), Text(<<>>, ""),
     Leaf("string", <<"x">>), Of("emphasis", <<Amp, A>>), Marked(Of("emphasis", <<A, Of("strikethrough", <<A>>)>>), "2"),
     Of("codespan", <<Text(<<"\\", "&">>, "")>>), Of("link", <<A, Amp>>), Named(Of("link", <<>>), "f"),
     Leaf("autolink", <<"&", "a", ";">>), Of("image", <<Amp, Leaf("autolink", <<"a">>), Of("emphasis", <<A>>)>>),
     Named(Of("image", <<Of("codespan", <<Text(<<"\\", "#">>, "")>>)>>), "g"),
     Leaf("rawhtml", <<"\\", "#">>)}

\* Where text runs together, or does not.
Runs == {n \in Inlines : n.kind \in {"text", "string", "codespan", "rawhtml"}}

Ref(i) == [Leaf("footnotelink", <<>>) EXCEPT !.index = i]

Paragraphs ==
    {<<Of("paragraph", <<Text(s, "")>>)>> : s \in Segments}
        \cup {<<Of("paragraph", k)>> : k \in UNION {[1..n -> Inlines] : n \in 0..2}}
        \cup {<<Of("paragraph", k)>> : k \in [1..3 -> Runs]}

\* Blocks that have segments of the lines from top on, or of none, and take those to end.
Lined(n, lines, end) == [n EXCEPT !.lines = lines, !.end = end]

Leaves(top) ==
    {Lined(Of("paragraph", <<A>>), {top}, top),
     Lined(Of("textblock", <<Amp, A>>), {top, top + 1}, top + 1),
     Lined(Of("heading", <<A>>), {top}, top),
     Lined([Leaf("fence", <<"\\", "#", "\n">>) EXCEPT !.info = <<" ", "a", " ", " ", "x", " ", "1">>],
           {top + 1, top + 2}, top + 2),
     Lined([Leaf("fence", <<>>) EXCEPT !.info = <<"a", " ">>], {}, top + 1),
     Lined(Leaf("rule", <<>>), {}, top)}

Deep(top) ==
    {Lined(Of("quote", <<b>>), {}, b.end) : b \in Leaves(top)}
        \cup {Lined(Marked(Of("list", <<Of("item", <<b>>)>>), "tight"), {}, b.end) : b \in Leaves(top)}

TopBlocks(top) == Leaves(top) \cup Deep(top)

\* The second comes on the line after the first, or after one that is blank.
Pairs == UNION {{<<b, c>> : c \in TopBlocks(b.end + 1) \cup TopBlocks(b.end + 2)} : b \in TopBlocks(0)}

\* Closed by a line of its own, or by none; and on the last line of the page.
Htmls ==
    {[Leaf("htmlblock", <<"\\", "#", "\n">>) EXCEPT !.closure = c] : c \in {<<>>, <<"x", "\n">>, <<"x">>}}
        \cup {Leaf("htmlblock", <<"x", "\n", "\n">>), Leaf("htmlblock", <<"x">>)}

Boxed(mark) == Of("item", <<Of("textblock", <<Marked(Leaf("checkbox", <<>>), mark), A>>)>>)

Backlink == Leaf("backlink", <<>>)
Footnote(i, label, blocks) == [Named(Of("footnote", blocks), label) EXCEPT !.index = i]

Others == Htmls \cup
    {Marked(Of("list", <<Boxed("true"), Boxed("false"), Of("item", <<>>)>>), "loose"),
     Leaf("indented", <<"&", "a", ";", "\n">>), Leaf("other", <<>>),
     Named(Leaf("definition", <<>>), "F"),
     Of("table", <<Of("row", <<Of("cell", <<A, Amp>>), Of("cell", <<>>)>>), Of("row", <<Of("cell", <<A>>), Of("cell", <<Amp>>)>>)>>)}

Noted ==
    UNION {{<<b, Of("paragraph", <<A, Ref(1), A, Ref(2)>>),
              Of("footnotes", <<Footnote(1, l, <<Of("paragraph", <<A, Backlink, Backlink>>)>>),
                                Footnote(2, m, <<Leaf("indented", <<"a">>), Backlink>>)>>)>>
            : l \in {"f", "g"}, m \in {"F", "h"}} : b \in Others}

Documents ==
    {<<b>> : b \in Others} \cup {<<b, c>> : b, c \in Leaves(0)}
        \cup {<<Of("list", <<Of("item", p)>>)>> : p \in Pairs}
        \cup Noted

MCInputs == {Page(blocks) : blocks \in Paragraphs \cup Documents}

=============================================================================
