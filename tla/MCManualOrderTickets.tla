------------------------ MODULE MCManualOrderTickets ------------------------
(***************************************************************************)
(* ManualOrderTickets on a small instance: an action and an older order    *)
(* without one, two requests at a time, and two of everything a caller may *)
(* choose, so that a retry may differ from what it repeats.                *)
(***************************************************************************)
EXTENDS ManualOrderTickets, TLC

\* Two requests are alike, and so are two reasons.
MCSymmetry == Permutations(Requests) \union Permutations(Reasons)
=============================================================================
