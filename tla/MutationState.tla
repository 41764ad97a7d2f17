---------------------------- MODULE MutationState ----------------------------
(***************************************************************************)
(* useWalletMutationState (packages/react/src/useWalletMutation.ts): the   *)
(* state every mutation hook of the React bindings keeps for a screen.     *)
(* Calls overlap and settle in any order; each carries the generation it   *)
(* was stamped with.  data is {} for null and {v} for the result v.        *)
(***************************************************************************)
EXTENDS Naturals

FreshHook == [generation |-> 0, pending |-> FALSE, error |-> FALSE, data |-> {}]

(* track(): the generation of the new call is that of the hook after it.   *)
Track(hook, keepPreviousData) ==
    [generation |-> hook.generation + 1, pending |-> TRUE, error |-> FALSE,
     data |-> IF keepPreviousData THEN hook.data ELSE {}]

(* Mutant: every call writes its result, in the order the calls settle.    *)
FulfilAny(hook, generation, value) ==
    [hook EXCEPT !.pending = FALSE, !.error = FALSE, !.data = {value}]

(* The operation of the call stamped generation resolves ...               *)
Fulfil(hook, generation, value) ==
    IF generation = hook.generation
    THEN [hook EXCEPT !.pending = FALSE, !.error = FALSE, !.data = {value}]
    ELSE hook

(* ... or rejects ...                                                      *)
Reject(hook, generation, keepPreviousData) ==
    IF generation = hook.generation
    THEN [hook EXCEPT !.pending = FALSE, !.error = TRUE,
                      !.data = IF keepPreviousData THEN @ ELSE {}]
    ELSE hook

(* ... or was a passkey ceremony the user dismissed, which is no error.    *)
Dismiss(hook, generation) ==
    IF generation = hook.generation
    THEN [FreshHook EXCEPT !.generation = generation]
    ELSE hook

(* reset(): no call that is in flight may write any more.                  *)
Reset(hook) == [FreshHook EXCEPT !.generation = hook.generation + 1]
=============================================================================
