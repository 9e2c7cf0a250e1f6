------------------------------- MODULE MCWebPages -------------------------------
(***************************************************************************)
(* A small instance of WebPages for TLC.                                   *)
(***************************************************************************)
EXTENDS WebPages

Searches == {{"sentiment"}, {"sentiment", "invoices"}}

\* Tools that match by category, by term, by both, by more than one term, and not at all.
SmallStock ==
    {[category |-> "nlp", corpus |-> {}, requests |-> 0],
     [category |-> "nlp", corpus |-> {"sentiment"}, requests |-> 0],
     [category |-> "computer_vision", corpus |-> {"sentiment"}, requests |-> 1],
     [category |-> "computer_vision", corpus |-> {}, requests |-> 1],
     [category |-> "computer_vision", corpus |-> {"sentiment", "invoices"}, requests |-> 0]}
================================================================================
