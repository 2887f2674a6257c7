---------------------------- MODULE CaddyImport ----------------------------
(***************************************************************************)
(* Snippets and `import` (caddyfile/import.rs), which work on the tokens   *)
(* of a Caddyfile before it has any structure: definitions `(name) {...}`  *)
(* are collected and taken out, then the first `import` of the stream is   *)
(* replaced by what it names, until none is left.  A graph of who imports  *)
(* whom refuses cycles.                                                    *)
(*                                                                         *)
(* A file is a sequence of rows, a row a sequence of words.  Words are     *)
(* opaque; what a word means to the importer (a snippet's name, a          *)
(* placeholder, a glob) is given by the constant tables below.             *)
(***************************************************************************)
EXTENDS Integers, Sequences

CONSTANTS Programs,   \* functions from file names to rows; "main" is the Caddyfile
          ParenName,  \* "(s)" -> "s"
          BlocksKey,  \* "{blocks.k}" -> "k"
          Globs,      \* an import pattern with a wildcard -> the files it matches, sorted
          MAX_ITERS   \* replacements made before the importer gives up

VARIABLES files,      \* the program being expanded
          toks, snippets, graph, imported, expanded,
          repeated    \* ghost: one import line was expanded twice, or a block used twice

importVars == <<files, toks, snippets, graph, imported, expanded, repeated>>

-----------------------------------------------------------------------------
(* Tokens and lines. *)

\* tokenize of a file: one token per word, with the file and the line it is on.
RECURSIVE Tokenize(_, _, _)
Tokenize(file, rows, i) ==
    IF i > Len(rows) THEN <<>>
    ELSE [w \in DOMAIN rows[i] |-> [file |-> file, imports |-> <<>>, line |-> i,
                                    text |-> rows[i][w], snip |-> ""]]
         \o Tokenize(file, rows, i + 1)

\* Mutant: lines told apart by file and number only.
NextOnNewLineNoChain(t1, t2) == t1.file # t2.file \/ t1.line < t2.line

\* is_next_on_new_line: another file or another import chain is another line.
NextOnNewLine(t1, t2) ==
    t1.file # t2.file \/ t1.imports # t2.imports \/ t1.line < t2.line

AtLineStart(ts, i) == i = 1 \/ NextOnNewLine(ts[i - 1], ts[i])

Depth(ts, from, to) ==
    LET opens == {i \in from..to : ts[i].text = "{"}
        closes == {i \in from..to : ts[i].text = "}"}
        Card(S) == LET RECURSIVE N(_)
                       N(T) == IF T = {} THEN 0 ELSE 1 + N(T \ {CHOOSE x \in T : TRUE})
                   IN N(S)
    IN Card(opens) - Card(closes)

\* capture_block: the place of the brace that closes the one at `open`, or 0.
CloseOf(ts, open) ==
    LET at == {j \in open..Len(ts) : Depth(ts, open, j) = 0} IN
    IF at = {} THEN 0 ELSE CHOOSE j \in at : \A k \in at : j <= k

Interior(ts, open) == SubSeq(ts, open + 1, CloseOf(ts, open) - 1)

\* collect_snippets: top-level definitions are taken out; a later one of the
\* same name replaces the earlier.
RECURSIVE CollectSnippets(_, _, _, _)
CollectSnippets(ts, i, kept, snips) ==
    IF i > Len(ts) THEN [ok |-> TRUE, kept |-> kept, snips |-> snips]
    ELSE IF /\ Depth(kept, 1, Len(kept)) = 0 /\ AtLineStart(ts, i)
            /\ ts[i].text \in DOMAIN ParenName /\ i < Len(ts) /\ ts[i + 1].text = "{"
         THEN LET close == CloseOf(ts, i + 1)
                  name == ParenName[ts[i].text]
                  body == Interior(ts, i + 1)
                  snip == [node |-> <<ts[i].file, name>>,
                           tokens |-> [j \in DOMAIN body |-> [body[j] EXCEPT !.snip = name]]]
              IN IF close = 0 THEN [ok |-> FALSE, kept |-> kept, snips |-> snips]
                 ELSE CollectSnippets(ts, close + 1, kept,
                                      [n \in DOMAIN snips \cup {name} |->
                                          IF n = name THEN snip ELSE snips[n]])
         ELSE CollectSnippets(ts, i + 1, Append(kept, ts[i]), snips)

-----------------------------------------------------------------------------
(* The import graph. *)

RECURSIVE ReachesInner(_, _, _, _)
ReachesInner(g, from, to, seen) ==
    \/ from = to
    \/ from \notin seen /\ \E e \in g : e[1] = from /\ ReachesInner(g, e[2], to, seen \cup {from})

Reaches(g, from, to) == ReachesInner(g, from, to, {})

\* add_edges: every edge of one import is tested before it is added.
RECURSIVE AddEdges(_, _, _)
AddEdges(g, from, to) ==
    IF to = <<>> THEN [ok |-> TRUE, graph |-> g]
    ELSE IF Reaches(g, Head(to), from) THEN [ok |-> FALSE, graph |-> g]
    ELSE AddEdges(g \cup {<<from, Head(to)>>}, from, Tail(to))

\* import_node: a snippet is known by its file and its name.
ImportNode(t) == <<t.file, t.snip>>

-----------------------------------------------------------------------------
(* One import. *)

\* find_import.
FindImport(ts) ==
    LET at == {i \in DOMAIN ts : ts[i].text = "import" /\ AtLineStart(ts, i)} IN
    IF at = {} THEN 0 ELSE CHOOSE i \in at : \A j \in at : i <= j

\* The arguments run to the end of the line or to a block opened on it.
ArgsEnd(ts, idx) ==
    LET stop == {k \in (idx + 2)..Len(ts) : NextOnNewLine(ts[k - 1], ts[k]) \/ ts[k].text = "{"}
    IN IF stop = {} THEN Len(ts) ELSE (CHOOSE k \in stop : \A j \in stop : k <= j) - 1

Texts(ts) == [i \in DOMAIN ts |-> ts[i].text]

\* The parse of the import at idx: target, arguments, block, and the last token
\* that belongs to it.
ParseImport(ts, idx) ==
    LET last == ArgsEnd(ts, idx)
        block == last < Len(ts) /\ ts[last + 1].text = "{" /\ ~NextOnNewLine(ts[last], ts[last + 1])
    IN [ok |-> /\ idx < Len(ts) /\ ~NextOnNewLine(ts[idx], ts[idx + 1])
               /\ block => CloseOf(ts, last + 1) # 0,
        target |-> IF idx < Len(ts) THEN ts[idx + 1].text ELSE "",
        args |-> Texts(SubSeq(ts, idx + 2, last)),
        block |-> IF block THEN Interior(ts, last + 1) ELSE <<>>,
        end |-> IF block THEN CloseOf(ts, last + 1) ELSE last]

\* import_files and read_and_tokenize: a literal path must exist, a pattern may
\* match nothing, and what it matches must be readable (a pattern also matches
\* directories).  Files are read in the order of their names.
RECURSIVE ReadFiles(_, _)
ReadFiles(fs, names) ==
    IF names = <<>> THEN <<>>
    ELSE Tokenize(Head(names), fs[Head(names)], 1) \o ReadFiles(fs, Tail(names))

ImportFiles(fs, target) ==
    LET names == IF target \in DOMAIN Globs THEN Globs[target] ELSE <<target>>
        ok == \A i \in DOMAIN names : names[i] \in DOMAIN fs
    IN [ok |-> ok, nodes |-> [i \in DOMAIN names |-> <<names[i], "">>],
        tokens |-> IF ok THEN ReadFiles(fs, names) ELSE <<>>]

\* resolve: a snippet of that name, else files, whose own snippets are collected.
Resolve(fs, snips, target) ==
    IF target \in DOMAIN snips
    THEN [ok |-> TRUE, nodes |-> <<snips[target].node>>,
          tokens |-> snips[target].tokens, snips |-> snips]
    ELSE LET f == ImportFiles(fs, target)
             c == CollectSnippets(f.tokens, 1, <<>>, snips)
         IN [ok |-> f.ok /\ c.ok, nodes |-> f.nodes, tokens |-> c.kept, snips |-> c.snips]

\* named_import_blocks: the key at the start of a line names what follows it on
\* the line and in a block opened there; what follows the block is skipped.
RECURSIVE NamedBlocks(_, _)
NamedBlocks(ts, i) ==
    IF i > Len(ts) THEN [ok |-> TRUE, map |-> <<>>]
    ELSE IF ~AtLineStart(ts, i) THEN NamedBlocks(ts, i + 1)
    ELSE LET last == ArgsEnd(ts, i - 1)
             opened == last < Len(ts) /\ ts[last + 1].text = "{" /\ ~NextOnNewLine(ts[last], ts[last + 1])
             close == IF opened THEN CloseOf(ts, last + 1) ELSE last
             rest == NamedBlocks(ts, close + 1)
             body == SubSeq(ts, i + 1, last) \o (IF opened THEN Interior(ts, last + 1) ELSE <<>>)
         IN IF ts[i].text = "{" \/ close = 0 THEN [ok |-> FALSE, map |-> <<>>]
            ELSE [ok |-> rest.ok,
                  map |-> [k \in DOMAIN rest.map \cup {ts[i].text} |->
                              IF k \in DOMAIN rest.map THEN rest.map[k] ELSE body]]

\* parse_variadic and replace_args, for the placeholders a word can be.
Argument(text, args) ==
    IF text = "{args[0]}" /\ args # <<>> THEN args[1] ELSE text

\* apply_import_placeholders.  The importer's tokens get one more link in their
\* import chain; those of the caller's block keep the provenance they have.
RECURSIVE ApplyPlaceholders(_, _, _, _, _)
ApplyPlaceholders(ts, args, block, named, chain) ==
    IF ts = <<>> THEN <<>>
    ELSE LET t == [Head(ts) EXCEPT !.imports = Append(@, chain)]
             here == CASE t.text = "{args[:]}" -> [i \in DOMAIN args |-> [t EXCEPT !.text = args[i]]]
                       [] t.text = "{block}" -> block
                       [] t.text \in DOMAIN BlocksKey ->
                            (IF BlocksKey[t.text] \in DOMAIN named
                             THEN named[BlocksKey[t.text]] ELSE <<>>)
                       [] OTHER -> <<[t EXCEPT !.text = Argument(@, args)]>>
         IN here \o ApplyPlaceholders(Tail(ts), args, block, named, chain)

Chain(t) == [file |-> t.file, line |-> t.line, snip |-> t.snip]

-----------------------------------------------------------------------------
(* expand and expand_imports: each step replaces the first import. *)

ImportInit == \E p \in Programs :
    LET c == CollectSnippets(Tokenize("main", p["main"], 1), 1, <<>>, <<>>) IN
    /\ files = p
    /\ toks = c.kept
    /\ snippets = c.snips
    /\ graph = {}
    /\ imported = (IF c.ok THEN "expanding" ELSE "error")
    /\ expanded = <<>>
    /\ repeated = FALSE

ImportFails(how) == imported' = how /\ UNCHANGED <<files, toks, snippets, graph, expanded, repeated>>

\* A block placeholder that stands twice in what is imported.
UsesBlockTwice(ts) ==
    \E i, j \in DOMAIN ts : i < j /\ ts[i].text = ts[j].text
                                  /\ ts[i].text \in {"{block}"} \cup DOMAIN BlocksKey

Expand(idx, p, r, named, chain, g) ==
    IF ~g.ok THEN ImportFails("cycle")
    ELSE /\ toks' = SubSeq(toks, 1, idx - 1)
                    \o ApplyPlaceholders(r.tokens, p.args, p.block, named.map, chain)
                    \o SubSeq(toks, p.end + 1, Len(toks))
         /\ snippets' = r.snips
         /\ graph' = g.graph
         /\ expanded' = Append(expanded, chain)
         /\ repeated' = (repeated \/ UsesBlockTwice(r.tokens)
                                  \/ \E i \in DOMAIN expanded : expanded[i] = chain)
         /\ UNCHANGED <<files, imported>>
ImportOf(idx, p, r, named) ==
    IF ~p.ok \/ ~r.ok \/ ~named.ok THEN ImportFails("error")
    ELSE Expand(idx, p, r, named, Chain(toks[idx]), AddEdges(graph, ImportNode(toks[idx]), r.nodes))
ImportParsed(idx, p) == ImportOf(idx, p, Resolve(files, snippets, p.target), NamedBlocks(p.block, 1))
ImportAt(idx) == idx # 0 /\ ImportParsed(idx, ParseImport(toks, idx))
Import == /\ imported = "expanding" /\ Len(expanded) < MAX_ITERS
          /\ ImportAt(FindImport(toks))

ImportsDone == /\ imported = "expanding" /\ Len(expanded) < MAX_ITERS /\ FindImport(toks) = 0
               /\ imported' = "done"
               /\ UNCHANGED <<files, toks, snippets, graph, expanded, repeated>>

\* The loop has used all its turns; the last import may even have been the last.
TooManyImports == imported = "expanding" /\ Len(expanded) = MAX_ITERS /\ ImportFails("many")

ImportNext == Import \/ ImportsDone \/ TooManyImports

-----------------------------------------------------------------------------
(* The reference: expansion row by row, by structural recursion. *)

BlockRows(rows, i) ==
    LET Opens(r) == Len(SelectSeq(rows[r], LAMBDA w: w = "{")) - Len(SelectSeq(rows[r], LAMBDA w: w = "}"))
        RECURSIVE Sum(_)
        Sum(r) == IF r < i THEN 0 ELSE Opens(r) + Sum(r - 1)
        ends == {r \in i..Len(rows) : Sum(r) = 0}
    IN CHOOSE r \in ends : \A q \in ends : r <= q

SubstituteRow(row, args, block) ==
    IF row = <<"{block}">> THEN block
    ELSE IF \E i \in DOMAIN row : row[i] \in DOMAIN BlocksKey
    THEN LET key == BlocksKey[row[1]]
             at == {i \in DOMAIN block : block[i][1] = key}
         IN IF at = {} THEN <<>>
            ELSE LET i == CHOOSE i \in at : \A j \in at : j <= i IN
                 IF block[i][Len(block[i])] = "{" THEN SubSeq(block, i + 1, BlockRows(block, i) - 1)
                 ELSE <<Tail(block[i])>>
    ELSE LET RECURSIVE Words(_)
             Words(ws) == IF ws = <<>> THEN <<>>
                          ELSE (IF Head(ws) = "{args[:]}" THEN args ELSE <<Argument(Head(ws), args)>>)
                               \o Words(Tail(ws))
         IN <<Words(row)>>

RECURSIVE Substitute(_, _, _)
Substitute(rows, args, block) ==
    IF rows = <<>> THEN <<>>
    ELSE SubstituteRow(Head(rows), args, block) \o Substitute(Tail(rows), args, block)

\* The rows a program stands for and the number of imports they take; `fuel`
\* bounds the nesting of imports, and a program that needs more than any acyclic
\* one can is one that never ends.
RECURSIVE Meaning(_, _, _, _, _)
Meaning(fs, rows, env, top, fuel) ==
    IF rows = <<>> \/ fuel = 0 THEN [ok |-> fuel # 0, rows |-> <<>>, env |-> env, n |-> 0]
    ELSE LET row == Head(rows)
             opens == row # <<>> /\ row[Len(row)] = "{"
             last == IF opens THEN BlockRows(rows, 1) ELSE 1
             inner == IF opens THEN SubSeq(rows, 2, last - 1) ELSE <<>>
             after == SubSeq(rows, last + 1, Len(rows))
         IN IF top /\ row # <<>> /\ row[1] \in DOMAIN ParenName /\ Len(row) > 1
            THEN Meaning(fs, after, [n \in DOMAIN env \cup {ParenName[row[1]]} |->
                                        IF n = ParenName[row[1]] THEN inner ELSE env[n]], top, fuel)
            ELSE IF row # <<>> /\ row[1] = "import"
            THEN LET args == SubSeq(row, 3, IF opens THEN Len(row) - 1 ELSE Len(row))
                     isSnip == row[2] \in DOMAIN env
                     names == IF row[2] \in DOMAIN Globs THEN Globs[row[2]] ELSE <<row[2]>>
                     RECURSIVE All(_)
                     All(ns) == IF ns = <<>> THEN <<>>
                                ELSE (IF Head(ns) \in DOMAIN fs THEN fs[Head(ns)] ELSE <<>>) \o All(Tail(ns))
                     body == IF isSnip THEN env[row[2]] ELSE All(names)
                     a == Meaning(fs, Substitute(body, args, inner), env, ~isSnip, fuel - 1)
                     b == Meaning(fs, after, a.env, top, fuel)
                 IN [ok |-> a.ok /\ b.ok, rows |-> a.rows \o b.rows, env |-> b.env, n |-> 1 + a.n + b.n]
            ELSE LET b == Meaning(fs, Tail(rows), env, top, fuel) IN
                 [ok |-> b.ok, rows |-> <<row>> \o b.rows, env |-> b.env, n |-> b.n]

\* The lines the token stream is cut into by NextOnNewLine.
RECURSIVE LinesOf(_, _, _)
LinesOf(ts, i, row) ==
    IF i > Len(ts) THEN (IF row = <<>> THEN <<>> ELSE <<row>>)
    ELSE IF row # <<>> /\ AtLineStart(ts, i)
         THEN <<row>> \o LinesOf(ts, i + 1, <<ts[i].text>>)
         ELSE LinesOf(ts, i + 1, Append(row, ts[i].text))

MaxNesting == 6

-----------------------------------------------------------------------------
(* Properties. *)

Expansion == Meaning(files, files["main"], <<>>, TRUE, MaxNesting)

\* Replacing one import of the token stream after the other, with lines told
\* apart by file, import chain and line number, yields the rows that a
\* structural reading of the files yields.  Left out: an import line expanded
\* twice and a block used twice, whose tokens carry the same chain and line.
ExpandsAsWritten == (imported = "done" /\ ~repeated) => Expansion.ok /\ LinesOf(toks, 1, <<>>) = Expansion.rows

Redefined == \E n \in DOMAIN snippets : snippets[n].node # <<"main", n>>

\* A file is refused for an import cycle only if its expansion would not end.
\* Left out: a snippet defined again by an imported file, which keeps the edges
\* of the one it replaces.
CyclesAreReal == (imported = "cycle" /\ ~Redefined) => ~Expansion.ok

\* The cap on the number of replacements is never what ends a cycle, and it
\* refuses no program that needs fewer: cycles are found by the test of each
\* edge before it is added (add_edges, reaches), not by running out of turns.
ExpansionEnds == imported = "many" => Expansion.ok /\ Expansion.n >= MAX_ITERS
=============================================================================
