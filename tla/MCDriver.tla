------------------------------ MODULE MCDriver ------------------------------
(***************************************************************************)
(* Command lines for Driver: each way to write an option, bundles, missing *)
(* values, bad options, - and --, and repeated options.                    *)
(***************************************************************************)
EXTENDS Driver

SixAddresses == 1..6

CommandLines ==
    { << >>,
      << <<"f">> >>,
      << <<"-", "o", "f">>, <<"f">> >>,
      << <<"-", "o">>, <<"f">>, <<"-">> >>,
      << <<"-", "-", "output">>, <<"f">>, <<"-", "-", "gen">>, <<"text">> >>,
      << <<"-", "x", "ast">>, <<"-", "x">>, <<"f">>, <<"-", "-">>, <<"-", "o">> >>,
      << <<"f">>, <<"f">> >>,
      << <<"-", "h", "v">> >>, << <<"-", "v">> >>, << <<"-", "-", "help">> >>,
      << <<"-", "o", "f">>, <<"-", "z">> >>, << <<"-", "-", "z">> >>,
      << <<"-", "o">> >>, << <<"-", "x">> >>, << <<"-", "-", "gen">> >>,
      << <<"-", "o">>, <<"-", "-">> >>, << <<"-", "-">> >>, << <<"f">>, <<"-", "-">> >>}
=============================================================================
