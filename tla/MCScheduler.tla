---------------------------- MODULE MCScheduler ----------------------------
(* Small instances of Scheduler.                                           *)
EXTENDS Scheduler

CONSTANTS a, b, c

MCHosts == {a, b, c}
MCChanging == {a, b}

(* What pgx encodes when the server describes the parameters, which is its *)
(* default; and a driver that encodes an int as text besides.              *)
Pgx == {"int"} \X {"int4", "int8"} \cup {<<"string", "text">>, <<"[]string", "text[]">>}
Lenient == Pgx \cup {<<"int", "text">>}
=============================================================================
