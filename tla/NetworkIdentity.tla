-------------------------- MODULE NetworkIdentity --------------------------
(***************************************************************************)
(* The public addresses and the country of the node                        *)
(* (internal/agent/network_identity.go): a lookup asks the providers one   *)
(* after the other, and a cache keeps them from being asked at every host  *)
(* report.  An identity is the set of its fields that are known.           *)
(***************************************************************************)
EXTENDS Integers

CONSTANTS
    IdentityTTL,     \* ticks: identity-refresh-interval
    DiscoverTimeout  \* ticks: for one lookup

ASSUME IdentityAssumption ==
    IdentityTTL \in Nat \ {0} /\ DiscoverTimeout \in 0..IdentityTTL

VARIABLES
    identity,  \* the cache: hasCache, cached, ticks since checkedAt
    lookup,    \* a lookup under way: next request, fields found, its age
    found,     \* history: what the last lookup that found anything found
    quiet      \* history: ticks since the providers were asked

identityVars == <<identity, lookup, found, quiet>>

Fields == {"ipv4", "ipv6", "country"}
NoLookup == [pc |-> "none", got |-> {}, age |-> 0]
Older(n) == IF n < IdentityTTL THEN n + 1 ELSE n

(* The cached identity is returned without a lookup.                       *)
Fresh == identity.has /\ identity.age < IdentityTTL

StartLookup ==
    /\ lookup' = [pc |-> "ipv4", got |-> {}, age |-> 0]
    /\ quiet' = 0
    /\ UNCHANGED <<identity, found>>

(* Discover: both addresses, then the country by the IPv4 address, then by *)
(* the IPv6 address.                                                       *)
NextRequest(pc, got) ==
    CASE pc = "ipv4" -> "ipv6"
      [] pc = "ipv6" /\ "ipv4" \in got -> "country4"
      [] pc \in {"ipv6", "country4"} /\ "ipv6" \in got /\ "country" \notin got -> "country6"
      [] OTHER -> "done"

FieldOf(pc) == IF pc \in {"country4", "country6"} THEN "country" ELSE pc

(* fetchJSON: no answer, none in time, an error status, an untrusted       *)
(* redirect, too long a body and a value that is not an address or country *)
(* all leave the field unknown.                                            *)
Fetch(mayAnswer) ==
    /\ lookup.pc \notin {"none", "done"}
    /\ \E got \in {lookup.got} \cup
                   (IF mayAnswer /\ lookup.age < DiscoverTimeout
                    THEN {lookup.got \cup {FieldOf(lookup.pc)}} ELSE {}) :
         lookup' = [lookup EXCEPT !.pc = NextRequest(@, got), !.got = got]
    /\ UNCHANGED <<identity, found, quiet>>

(* Mutant: a failed lookup leaves checkedAt where it was. *)
CacheAfterUnchecked(got) ==
    IF got = {} THEN identity ELSE [has |-> TRUE, cached |-> got, age |-> lookup.age]

(* Mutant: whatever was found is cached. *)
CacheAfterAlways(got) ==
    [has |-> identity.has \/ got # {}, cached |-> got, age |-> lookup.age]

(* checkedAt is the time at which the lookup began.                        *)
CacheAfter(got) ==
    IF got = {} THEN [identity EXCEPT !.age = lookup.age]
    ELSE [has |-> TRUE, cached |-> got, age |-> lookup.age]

EndLookup ==
    /\ lookup.pc = "done"
    /\ identity' = CacheAfter(lookup.got)
    /\ lookup' = NoLookup
    /\ found' = IF lookup.got = {} THEN found ELSE lookup.got
    /\ UNCHANGED quiet

IdentityTick ==
    /\ lookup.pc # "none" => lookup.age < DiscoverTimeout
    /\ identity' = [identity EXCEPT !.age = Older(@)]
    /\ lookup' = IF lookup.pc = "none" THEN lookup ELSE [lookup EXCEPT !.age = @ + 1]
    /\ quiet' = Older(quiet)
    /\ UNCHANGED found

NoIdentity == [has |-> FALSE, cached |-> {}, age |-> 0]

NewDiscoverer ==
    identity' = NoIdentity /\ lookup' = NoLookup /\ found' = {} /\ quiet' = IdentityTTL

IdentityInit ==
    identity = NoIdentity /\ lookup = NoLookup /\ found = {} /\ quiet = IdentityTTL

-----------------------------------------------------------------------------
(* Once the providers have told anything, they are left alone for the      *)
(* refresh interval after each lookup, also after one that failed.         *)
ProvidersSpared ==
    [][lookup.pc = "none" /\ lookup'.pc # "none" /\ identity.has =>
         quiet >= IdentityTTL]_identityVars
=============================================================================
