------------------------------- MODULE MCOAuth -------------------------------
(* A small instance of OAuth for TLC.                                      *)
EXTENDS OAuth

HostA == <<"a">>
HostAB == <<"a", "b">>      \* a host whose name starts with the other's

At(host, path) == [host |-> host, path |-> path]
MCPlaces == {At(HostA, <<"x">>), At(HostAB, <<"x", "y">>), At(HostAB, <<"z">>)}

MCBlocks == {[rev |-> 1, pin |-> 0, public_url |-> NoUrl],
             [rev |-> 2, pin |-> 0, public_url |-> HostAB],
             [rev |-> 2, pin |-> 1, public_url |-> NoUrl]}

MCAsks == {[redirect_uri |-> "callback", code_challenge |-> "v1",
            scope |-> {"admin", "offline_access"}, resource |-> At(HostAB, <<"x">>)],
           [redirect_uri |-> "loopback", code_challenge |-> "v1",
            scope |-> {"mcp"}, resource |-> NoResource],
           [redirect_uri |-> "elsewhere", code_challenge |-> "v2",
            scope |-> {}, resource |-> NoResource]}

Busy(f, none) == {x \in DOMAIN f : f[x] # none}

\* One complication at a time: two loads or an edit under a load before
\* there are codes; two requests before the first tick while nothing loads; a
\* second key, a pinned key, a third token or the last tick with a single code; a
\* third code before any is redeemed.
Small ==
    /\ Cardinality(tokens) <= 3
    /\ Cardinality(Busy(load, Idle)) = 2 => issued = 0 /\ now = 0
    /\ \A l \in Busy(load, Idle) : load[l].block = settings \/ issued = 0
    /\ Cardinality(Busy(holds, 0)) = 2 => Busy(load, Idle) = {} /\ now = 0
    /\ keys = 2 \/ settings.pin # 0 \/ Cardinality(tokens) = 3 => issued <= 1
    /\ issued >= 2 => now <= 1
    /\ issued = 3 => taken = {} /\ made = 1 /\ Busy(load, Idle) = {}
                     /\ Cardinality(Busy(holds, 0)) <= 1

Alike == Permutations(Requests) \cup Permutations(Loads)
=============================================================================
