---------------------------- MODULE PreludeFolds ----------------------------
(***************************************************************************)
(* The ready-made folds and graphs of the prelude. A text is the sequence  *)
(* of its tokens; of the layout only line ends ("nl") and the indentation  *)
(* after them ("pad") are kept, and a node's label is the node.            *)
(***************************************************************************)
EXTENDS SharedDomain

CountFold ==
    NewFold([n \in Any |-> 1], [heap, child \in Any |-> heap + child], Same)

DepthFold ==
    NewFold([n \in Any |-> 1],
            [heap, child \in Any |-> Max({heap, child + 1})], Same)

VecHeap[n \in Any] == [node |-> n, childresults |-> <<>>]
VecFold(finalize) ==
    NewFold(VecHeap,
            [heap, result \in Any |-> [heap EXCEPT !.childresults = Append(@, result)]],
            finalize)

----------------------------------------------------------------------------
\* Rendering a tree.

\* push_indent: s.replace("\n", "\n" + indent).
PushIndent(text, indent) ==
    FlatVisit(text, [tok \in Any |-> IF tok = "nl" THEN <<"nl">> \o indent ELSE <<tok>>])

RECURSIVE Joined(_, _)
Joined(texts, separator) ==
    IF Len(texts) <= 1 THEN FlattenSeq(texts)
    ELSE Head(texts) \o separator \o Joined(Tail(texts), separator)

MultilineCfg ==
    [separator |-> <<",", "nl">>, join_left |-> <<"[", "nl">>,
     join_right |-> <<"nl", "]">>, indent |-> <<"pad">>]

\* format with only the opening bracket's line end indented.
FormatTreeOpening(cfg, label, childstrings) ==
    <<label>> \o PushIndent(cfg.join_left, cfg.indent)
              \o Joined(childstrings, cfg.separator) \o cfg.join_right
\* TreeFormatCfg::format: brackets included, the children's part is
\* indented as a whole.
FormatTree(cfg, label, childstrings) ==
    <<label>> \o PushIndent(cfg.join_left \o Joined(childstrings, cfg.separator)
                                          \o cfg.join_right, cfg.indent)
MakeFold(cfg, label) ==
    VecFold([heap \in Any |-> FormatTree(cfg, label[heap.node], heap.childresults)])

\* pretty_print: only what is between the brackets is indented.
PrettyPrintFold(label) ==
    VecFold([heap \in Any |->
        IF heap.childresults = <<>> THEN <<label[heap.node]>>
        ELSE <<label[heap.node], "[", "nl">>
                \o PushIndent(Joined(heap.childresults, <<",", "nl">>), <<"pad">>)
                \o <<"nl", "]">>])

----------------------------------------------------------------------------
\* Graphs derived from graphs.

\* Traced: a node with the way it was reached.
TracedRoot(n) == [node |-> n, way |-> <<>>]
TracedTreeish(base) ==
    [traced \in Any |->
        LET kids == At(base, traced.node) IN
        [i \in DOMAIN kids |->
            [node |-> kids[i], way |-> Append(traced.way, <<i - 1, traced.node>>)]]]

\* Either<Err, Valid> nodes: an error is a leaf.
SeedsForFallible(seedsFromValid) ==
    EdgyContramapOrEmit(seedsFromValid, [n \in Any |->
        IF n.side = "Right" THEN [side |-> "Left", value |-> n.value]
        ELSE [side |-> "Right", value |-> <<>>]])
=============================================================================
