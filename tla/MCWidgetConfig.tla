---------------------------- MODULE MCWidgetConfig ----------------------------
(* WidgetConfig with short lists of every form, and long lists of one. *)
EXTENDS WidgetConfig

Origin(h, up, p, b) == [host |-> h, upper |-> up, pad |-> p, bare |-> b]

\* One host in every form, and a second one.
Forms ==
    {Origin(1, FALSE, p, TRUE) : p \in Pads}
      \cup {Origin(1, TRUE, "", TRUE), Origin(1, FALSE, "", FALSE), Origin(2, TRUE, "slash", TRUE)}
ShortLists == UNION {[1 .. n -> Forms] : n \in 0 .. 3}

\* The longest list whose connections fit the width of the limit, and one more.
LongList(n) == [h \in 1 .. n |-> Origin(h, FALSE, "", TRUE)]

Lists == ShortLists \cup {LongList(127), LongList(128)}
Origins == Forms \cup {LongList(128)[h] : h \in 1 .. 128}
=============================================================================
