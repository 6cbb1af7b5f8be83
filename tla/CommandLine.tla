---------------------------- MODULE CommandLine ----------------------------
(***************************************************************************)
(* A command line read as a whole, for hexir-run and hexir-bench: both     *)
(* walk argv from left to right and let an option overwrite what an        *)
(* earlier one of its kind has set.                                        *)
(***************************************************************************)
EXTENDS Integers, Sequences

(* Where the first n arguments give an option, and its last value. *)
Given(line, option, n) == {a \in 1 .. n : line[a].option = option}

Latest(given) == CHOOSE a \in given : \A b \in given : b <= a

LastGiven(line, option, n, default) ==
  IF Given(line, option, n) = {} THEN default
  ELSE line[Latest(Given(line, option, n))].value
=============================================================================
