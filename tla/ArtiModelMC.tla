---------------------------- MODULE ArtiModelMC ----------------------------
(* Instances of ArtiModel for TLC.                                         *)
EXTENDS ArtiModel, TLC

CONSTANTS o1, o2, o3, b1, b2, b3, b4

\* One menu with free buttons only.
MenuID == {"menu"}
MenuBuiltin == [i \in MenuID |-> <<>>]

\* A message box born with a report button.
BoxID == {"box"}
BoxBuiltin == [i \in BoxID |-> <<REPORT>>]

\* Live data, born with an edit button (id 0, swallowed) and a next button (id 1).
LiveID == {"live"}
LiveBuiltin == [i \in LiveID |-> <<0, 1>>]

\* Live data beside a blocking message box.
TwoID == {"live", "box"}
TwoBuiltin == [i \in TwoID |-> IF i = "live" THEN <<0>> ELSE <<>>]

Live == {"live"}
None == {}
Edit == {0}

Objects == {o1, o2}
Symmetry == Permutations({o1, o2, o3}) \cup Permutations({b1, b2, b3, b4})

\* Freed memory is never read before it is constructed again, so what it holds
\* need not tell states apart.
Known(S, held, f, blank) == [x \in S |-> IF x \in held THEN f[x] ELSE blank]
View ==
  LET h == Referenced(reg) \cap Obj
      b == ReferencedBtn IN
  <<reg, Known(Obj, h, owner, "none"), Known(Obj, h, buttons, <<>>),
    Known(Obj, h, returnID, NOKEY), Known(Obj, h, lastClick, NoBtn),
    Known(Obj, h, reload, FALSE), Known(Obj, h, other, FALSE), timer,
    Known(Obj, h, fresh, FALSE), Known(Btn, b, btnId, 0), Known(Btn, b, btnStatus, ENABLE),
    Known(Btn, b, btnTemp, FALSE), appVars, uiVars, mainVars>>
=============================================================================
