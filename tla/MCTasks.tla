------------------------------- MODULE MCTasks -------------------------------
(***************************************************************************)
(* The two tasks of config.toml, the task of the scripts under its own     *)
(* name, and some that are written differently.                            *)
(***************************************************************************)
EXTENDS Tasks

Whole == [Name |-> Name["book"], WaitTime |-> 2, Reload |-> TRUE, MaxDepth |-> 5,
          Fetcher |-> "browser", Limits |-> <<1, 20>>]
\* The task of the scripts, under its name.
Scripts == [Whole EXCEPT !.Name = Name["js"]]
Bare(name) == [Name |-> name, WaitTime |-> 0, Reload |-> FALSE, MaxDepth |-> 0,
               Fetcher |-> "", Limits |-> <<>>]

MCConfigs == {Whole, Bare("xxx"), Bare(""), Scripts,
              [Whole EXCEPT !.Name = ""],
              [Whole EXCEPT !.Reload = FALSE, !.WaitTime = 0],
              [Whole EXCEPT !.MaxDepth = 1],
              [Whole EXCEPT !.Limits = <<>>],
              [Whole EXCEPT !.Fetcher = "base"],
              [Whole EXCEPT !.Limits = <<1, 0>>]}
MCNamed == {Whole, Scripts}
MCLink == {"u", "v"}
=============================================================================
