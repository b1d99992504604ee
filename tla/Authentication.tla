--------------------------- MODULE Authentication ---------------------------
(***************************************************************************)
(* The API keys of the websocket proxy (crates/websocket-proxy/src/auth.rs *)
(* and their use in main.rs): the --api-keys arguments application:key:    *)
(* limit are parsed once, at start-up, into the map that admits requests   *)
(* and the map of limits that the rate limiter enforces.  An argument is   *)
(* the list of its parts; a list is never empty.                           *)
(***************************************************************************)
EXTENDS Integers, Sequences
LOCAL INSTANCE SequencesExt

CONSTANTS
    Empty,                  \* the empty part
    Arguments               \* arguments, each a list of parts

ASSUME AuthenticationAssumption == \A arg \in Arguments : Len(arg) > 0

\* The next part of the argument; a part that is not there counts as empty.
Part(arg, i) == IF i <= Len(arg) THEN arg[i] ELSE Empty

\* The maps after the arguments parsed so far, and the outcome: the error that
\* ended the parsing, if any.
NoKeys == [outcome |-> "Ok", key_to_application |-> <<>>, app_to_rate_limit |-> <<>>]

Insert(map, key, value) ==
    [k \in DOMAIN map \cup {key} |-> IF k = key THEN value ELSE map[k]]

\* Mutant: keys that were given before are not looked for.
OutcomeOf_SharedKeys(auth, arg) ==
    IF auth.outcome # "Ok" THEN auth.outcome
    ELSE IF Part(arg, 1) = Empty THEN "MissingApplicationArgument"
    ELSE IF Part(arg, 2) = Empty THEN "MissingAPIKeyArgument"
    ELSE IF Part(arg, 3) = Empty THEN "MissingRateLimitArgument"
    ELSE IF Len(arg) > 3 THEN "TooManyComponents"
    ELSE IF arg[1] \in DOMAIN auth.app_to_rate_limit THEN "DuplicateApplicationArgument"
    ELSE IF arg[3] \notin Nat THEN "panic"
    ELSE "Ok"

\* A limit that is not a number is not an error of try_from: unwrap() panics.
OutcomeOf(auth, arg) ==
    IF auth.outcome # "Ok" THEN auth.outcome
    ELSE IF Part(arg, 1) = Empty THEN "MissingApplicationArgument"
    ELSE IF Part(arg, 2) = Empty THEN "MissingAPIKeyArgument"
    ELSE IF Part(arg, 3) = Empty THEN "MissingRateLimitArgument"
    ELSE IF Len(arg) > 3 THEN "TooManyComponents"
    ELSE IF arg[1] \in DOMAIN auth.app_to_rate_limit THEN "DuplicateApplicationArgument"
    ELSE IF arg[2] \in DOMAIN auth.key_to_application THEN "DuplicateAPIKeyArgument"
    ELSE IF arg[3] \notin Nat THEN "panic"
    ELSE "Ok"

ParseArgument(auth, arg) ==
    LET outcome == OutcomeOf(auth, arg)
    IN  IF outcome # "Ok" THEN [NoKeys EXCEPT !.outcome = outcome]
        ELSE [outcome |-> "Ok",
              key_to_application |-> Insert(auth.key_to_application, arg[2], arg[1]),
              app_to_rate_limit |-> Insert(auth.app_to_rate_limit, arg[1], arg[3])]

try_from(args) ==
    IF args = <<>> THEN [NoKeys EXCEPT !.outcome = "NoData"]
    ELSE FoldLeft(ParseArgument, NoKeys, args)

get_application_for_key(auth, api_key, none) ==
    IF api_key \in DOMAIN auth.key_to_application
    THEN auth.key_to_application[api_key] ELSE none

get_rate_limits(auth) == auth.app_to_rate_limit
-----------------------------------------------------------------------------
\* The reference for try_from: it accepts a list exactly when it is not empty, its
\* arguments are well formed, and no two share an application or a key; and then
\* the maps hold what the arguments say.
ParsedAsGiven(args) ==
    LET auth == try_from(args)
        given == {args[i] : i \in DOMAIN args}
        WellFormed(arg) == Len(arg) = 3 /\ Empty \notin {arg[1], arg[2]} /\ arg[3] \in Nat
    IN  /\ auth.outcome = "Ok" <=>
            /\ args # <<>>
            /\ \A arg \in given : WellFormed(arg)
            /\ \A i, j \in DOMAIN args :
                i # j => args[i][1] # args[j][1] /\ args[i][2] # args[j][2]
        /\ auth.outcome = "Ok" =>
            /\ DOMAIN auth.key_to_application = {arg[2] : arg \in given}
            /\ DOMAIN auth.app_to_rate_limit = {arg[1] : arg \in given}
            /\ \A arg \in given :
                /\ auth.key_to_application[arg[2]] = arg[1]
                /\ auth.app_to_rate_limit[arg[1]] = arg[3]
=============================================================================
