----------------------------- MODULE ProxySwitch -----------------------------
(***************************************************************************)
(* proxy.RoundRobinProxySwitcher: a counter of fixed width, shared by all  *)
(* requests of the process, chooses the proxy.                             *)
(***************************************************************************)
EXTENDS Integers, Sequences, FiniteSets

CONSTANTS Proxies,    \* the configured URLs, a sequence
          Malformed,  \* those that url.Parse refuses
          Modulus     \* the counter's values are 0 .. Modulus - 1; 2^32 in the code

ASSUME ProxySwitchAssumption == /\ Proxies \in Seq(STRING)
                                /\ Modulus \in Nat \ {0, 1}

VARIABLES index,      \* roundRobinSwitcher.index
          uses,       \* history: by position in Proxies, the requests sent there
          wraps       \* history: how often the counter wrapped around

\* RoundRobinProxySwitcher gives a Func.  On its error the worker logs, and
\* goes on without one.
HasProxy == Proxies # <<>> /\ \A i \in 1 .. Len(Proxies) : Proxies[i] \notin Malformed

ProxyInit == /\ index = 0
             /\ uses = [i \in 1 .. Len(Proxies) |-> 0]
             /\ wraps = 0

\* The position in Proxies that the counter stands for.
Chosen == (index % Len(Proxies)) + 1

\* Mutant: two callers may read the counter before either adds to it.
GetProxyRaced == /\ \/ index' = (index + 1) % Modulus
                    \/ index' = index
                 /\ uses' = [uses EXCEPT ![Chosen] = @ + 1]
                 /\ wraps' = IF index' < index THEN wraps + 1 ELSE wraps

\* The counter is advanced atomically, and what it was chooses the proxy.
GetProxy == /\ index' = (index + 1) % Modulus
            /\ uses' = [uses EXCEPT ![Chosen] = @ + 1]
            /\ wraps' = IF index' < index THEN wraps + 1 ELSE wraps

-----------------------------------------------------------------------------
\* The rotation is even: between two proxies the requests differ by one, and
\* by one more for each time the counter wrapped around.
RotationEven == \A i, j \in DOMAIN uses : uses[i] - uses[j] <= 1 + wraps
=============================================================================
