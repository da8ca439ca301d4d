------------------------------ MODULE OnceOnly ------------------------------
(***************************************************************************)
(* What replay keys promise the user of the Local Core.  Until its window  *)
(* is over, the mutation that carries a key takes effect at most once.  Of *)
(* terminal input "ok" is said only when it took effect, and "refused", as *)
(* the first that is said of it, only when it did not and never will.      *)
(* "unknown" promises nothing, and neither does a refusal that retracts    *)
(* it.  A refused Connect promises nothing either: the connection it may   *)
(* have opened dies with the Core.                                         *)
(***************************************************************************)
EXTENDS Naturals

CONSTANTS Keys

VARIABLES
    lasting,   \* the effect survives the Core (terminal input does, a connection does not)
    effects,   \* how often each key's mutation has taken effect
    over,      \* the keys whose window is over
    verdict    \* what the user was told of each key

onceVars == <<lasting, effects, over, verdict>>

Verdicts == {"none", "ok", "refused", "unknown", "retracted"}

OnceInit ==
    /\ lasting \in BOOLEAN
    /\ effects = [k \in Keys |-> 0] /\ over = {}
    /\ verdict = [k \in Keys |-> "none"]

Apply(k) ==
    /\ effects[k] = 0 \/ k \in over
    /\ lasting => verdict[k] # "refused"
    /\ effects' = [effects EXCEPT ![k] = @ + 1]
    /\ UNCHANGED <<lasting, over, verdict>>

\* The Core died, and with it what it held.
Lose ==
    /\ ~lasting
    /\ effects' = [k \in Keys |-> 0]
    /\ UNCHANGED <<lasting, over, verdict>>

\* A window ends, of a key that the user was told nothing final about.
Expire(k) ==
    /\ verdict[k] = "unknown"
    /\ over' = over \cup {k}
    /\ UNCHANGED <<lasting, effects, verdict>>

Tell(k, v) ==
    /\ v = "ok" /\ lasting => effects[k] > 0
    /\ v = "refused" => verdict[k] = "none" /\ (lasting => effects[k] = 0)
    /\ v = "retracted" => verdict[k] = "unknown"
    /\ verdict' = [verdict EXCEPT ![k] = v]
    /\ UNCHANGED <<lasting, effects, over>>

OnceNext ==
    \/ \E k \in Keys : Apply(k) \/ Expire(k) \/ \E v \in Verdicts \ {"none"} : Tell(k, v)
    \/ Lose

OnceSpec == OnceInit /\ [][OnceNext]_onceVars
=============================================================================
