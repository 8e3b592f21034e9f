--------------------------- MODULE TranslationMC ---------------------------
(***************************************************************************)
(* An instance of Translation for TLC, and what is expected of it in vain. *)
(***************************************************************************)
EXTENDS Translation, TLC

CONSTANTS title, row, w1, w2, long, r1, r2

\* A title that stays and a row that is rewritten.
TitleAndRow == (title :> {w1}) @@ (row :> {w2, long})
Either == BOOLEAN
Taps == Permutations({r1, r2})
-----------------------------------------------------------------------------
(* What the comments say.                                                  *)

\* queryWords, line 23: no more than 128 words go into one request.
BatchLimit == \A r \in Requests : pc[r] = "wait" => Len(Asked(r)) <= MaxItems

\* machineTranslation, line 472: a word that is being translated is not sent again.
SentOnce ==
  \A r, q \in Requests :
    pc[r] = "wait" /\ pc[q] = "wait" /\ r # q => WordsOf(r) \cap WordsOf(q) = {}

\* TDD_TranslatedModel.h, line 15: isTranslated says whether the text is translated.
DoneIsTranslated == \A x \in Texts : done[x] => shown[x] = Translated(src[x])
=============================================================================
