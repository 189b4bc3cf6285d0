------------------------------ MODULE KeyValue ------------------------------
(***************************************************************************)
(* Keys with a time to live, as the client of infrastructure/              *)
(* redis_client.py sees them: the commands of Redis that the backend uses, *)
(* and InMemoryKV, which stands in for Redis in development.               *)
(*                                                                         *)
(* An entry holds a positive value and the ticks it has left; InMemoryKV   *)
(* keeps a deadline instead, and drops the entry when it is next asked for *)
(* it.  Values are not interpreted, except those of counters.              *)
(***************************************************************************)
EXTENDS Integers

CONSTANT Second     \* ticks in a second

ASSUME SecondAssumption == Second \in Nat \ {0}

\* An entry without a TTL stays for ever.
Endless == -1

Absent == [val |-> 0, ttl |-> 0]

Entry == {Absent} \cup [val : Nat \ {0}, ttl : (Nat \ {0}) \cup {Endless}]

Live(e) == e.val > 0

\* What one tick leaves of an entry.
Aged(e) == IF e.ttl = 1 THEN Absent
           ELSE IF e.ttl > 1 THEN [e EXCEPT !.ttl = @ - 1] ELSE e

\* SET with EX, SET with NX and EX, EXPIRE; times are in seconds.
Put(v, ex) == [val |-> v, ttl |-> ex * Second]

PutNew(e, v, ex) == IF Live(e) THEN e ELSE Put(v, ex)

Expire(e, ex) == IF Live(e) THEN [e EXCEPT !.ttl = ex * Second] ELSE e

\* INCR, which keeps the TTL, and gives a new counter none.
Incremented(e) == IF Live(e) THEN [e EXCEPT !.val = @ + 1]
                  ELSE [val |-> 1, ttl |-> Endless]

\* Mutants: a TTL below a second is cut to nothing; TTLs are rounded up.
CarriedToZero(ttl) == (ttl \div Second) * Second
CarriedUp(ttl) == ((ttl + Second - 1) \div Second) * Second

\* InMemoryKV.incr carries the TTL over in whole seconds, but at least one.
Carried(ttl) == IF ttl < Second THEN Second ELSE (ttl \div Second) * Second

\* InMemoryKV.incr: ex is given for a counter that was not there when
\* incr_with_ttl looked for it.
MemoryIncremented(e, found, ex) ==
    [val |-> e.val + 1,
     ttl |-> IF ~found THEN ex * Second
             ELSE IF Live(e) /\ e.ttl # Endless THEN Carried(e.ttl)
             ELSE Endless]
=============================================================================
