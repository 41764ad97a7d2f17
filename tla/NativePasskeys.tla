--------------------------- MODULE NativePasskeys ---------------------------
(***************************************************************************)
(* The passkey wallets of the React Native app: the ceremony               *)
(* (packages/react-native/src/passkey.ts) over the prompts of the system   *)
(* (WavelengthPasskey.swift, WavelengthModule.kt), the hook                *)
(* useWalletPasskey, and the screens that use them (OnboardingFlow.tsx,    *)
(* UnlockScreen.tsx).  A prompt may be dismissed, may fail, or may stay    *)
(* without an answer until a timer gives it up; what it answers is text.   *)
(* Which key a wallet is derived from is the daemon's, and is never told.  *)
(***************************************************************************)
EXTENDS Base64Url, MutationState, FiniteSets

CONSTANTS
    Passkeys, Synced,   \* credentials, and those the device has at first
    PrfLength,          \* bytes of a PRF output; 32 of them leave two over
    Prf,                \* the output of each passkey
    Accounts,           \* registry entries
    NoOne,              \* null
    MaxCeremonies,      \* bound: ceremonies begun
    MaxScreenings       \* bound: screens mounted

ASSUME NativePasskeysAssumption ==
    /\ Synced \subseteq Passkeys
    /\ NoOne \notin Passkeys \cup Accounts
    /\ PrfLength \in Nat \ {0}
    /\ \A c \in Passkeys : Len(Prf[c]) = PrfLength /\ \A i \in 1..PrfLength : Prf[c][i] \in 0..255
    /\ \A c, d \in Passkeys : Prf[c] = Prf[d] => c = d
    /\ {MaxCeremonies, MaxScreenings} \subseteq Nat

VARIABLES
    enrolled,           \* the passkeys of the authenticator
    prompts,            \* prompts of the system that have not answered
    ceremonies,         \* the handlers in flight
    createHook, openHook, restorePending,   \* state of the mounted screen
    screening,          \* how many screens were mounted
    account, mode,      \* the entry whose runtime is up, onboardingMode
    walletPhase,        \* the phase the screen follows
    seeds,              \* the key each entry's wallet was made from
    recorded,           \* credentialId of each entry
    begun,              \* counter of the bound
    handed,             \* history: keys handed to the engine
    dismissed,          \* history: calls whose prompt the user dismissed
    strayed             \* history: a ceremony has outlived its screen

screenView == <<createHook, openHook, restorePending, screening>>
visitVars == <<account, mode, walletPhase>>
passkeyPast == <<begun, handed, dismissed, strayed>>
passkeyVars == <<enrolled, prompts, ceremonies, screenView, visitVars, seeds, recorded,
                 passkeyPast>>

NoKey == <<>>

PasskeysInit ==
    /\ enrolled = Synced /\ prompts = {} /\ ceremonies = {}
    /\ createHook = FreshHook /\ openHook = FreshHook /\ restorePending = FALSE
    /\ screening = 0
    /\ account = NoOne /\ mode = "create" /\ walletPhase = "list"
    /\ seeds = [a \in Accounts |-> NoKey]
    /\ recorded = [a \in Accounts |-> NoOne]
    /\ begun = 0 /\ handed = {} /\ dismissed = {} /\ strayed = FALSE

-----------------------------------------------------------------------------
(* Key material as text                                                    *)

(* Mutant: what decodes is taken for a key.                                *)
KeyOfAny(text) == LET decoded == TextToBytes(text) IN decoded.bytes

(* prfOutputHex                                                            *)
KeyOf(text) ==
    LET decoded == TextToBytes(text) IN
      IF Len(decoded.bytes) = PrfLength THEN decoded.bytes ELSE NoKey

(* How a provider may render an output: as it should, with padding or with *)
(* blanks; cut, with a letter too many, or with a foreign character in it; *)
(* and not at all.                                                         *)
Renderings(bytes) ==
    LET text == BytesToText(bytes) IN
      {text, Append(text, Padding), <<Blank>> \o text,
       SubSeq(text, 1, Len(text) - 1), Append(text, 0), [text EXCEPT ![1] = Foreign], <<>>}

(* passkeyErrorMessage, and didCompleteWithError on iOS.                   *)
MessageOf(ending) ==
    IF ending = "dismissed" THEN "passkey ... was cancelled" ELSE "a message of the provider"

(* isNativeCancel                                                          *)
IsNativeCancel(message) ==
    message \in {"GetCredentialCancellationException", "CreateCredentialCancellationException",
                 "ASAuthorizationError 1001", "user cancelled"}

-----------------------------------------------------------------------------
(* The screen                                                              *)

PasskeyScreen ==
    CASE walletPhase = "needsWallet" ->
           IF recorded[account] # NoOne THEN "dataMissing"
           ELSE IF createHook.pending \/ restorePending THEN "loading" ELSE mode
      [] walletPhase = "locked" -> IF openHook.pending THEN "loading" ELSE "unlock"
      [] walletPhase \in {"list", "live"} -> walletPhase

IsMounted(t) == t.screening = screening

(* Another screen: the hooks of the last one are gone, and the handlers    *)
(* that others left behind are not.                                        *)
Remounts(others) ==
    /\ screening' = screening + 1
    /\ createHook' = FreshHook /\ openHook' = FreshHook /\ restorePending' = FALSE
    /\ strayed' = (strayed \/ others # {})

OpensAccount(a, m) ==
    /\ PasskeyScreen = "list"
    /\ screening < MaxScreenings
    /\ account' = a /\ mode' = m
    /\ walletPhase' = IF seeds[a] = NoKey THEN "needsWallet" ELSE "locked"
    /\ Remounts(ceremonies)
    /\ UNCHANGED <<enrolled, prompts, ceremonies, seeds, recorded, begun, handed, dismissed>>

(* "Back", and the death of the runtime, which no screen can hold off.     *)
LeavesAccount ==
    /\ account # NoOne
    /\ account' = NoOne /\ walletPhase' = "list"
    /\ Remounts(ceremonies)
    /\ UNCHANGED <<enrolled, prompts, ceremonies, mode, seeds, recorded, begun, handed, dismissed>>

(* The system reclaims the data of a wallet that is closed.                *)
LosesData(a) ==
    /\ a # account
    /\ seeds[a] # NoKey
    /\ seeds' = [seeds EXCEPT ![a] = NoKey]
    /\ UNCHANGED <<enrolled, prompts, ceremonies, screenView, visitVars, recorded, passkeyPast>>

(* onSetUpAgain                                                            *)
SetsUpAgain ==
    /\ PasskeyScreen = "dataMissing"
    /\ recorded' = [recorded EXCEPT ![account] = NoOne]
    /\ mode' = "restore"
    /\ UNCHANGED <<enrolled, prompts, ceremonies, screenView, account, walletPhase, seeds, passkeyPast>>

-----------------------------------------------------------------------------
(* The ceremony                                                            *)

Prompt(t, kind, allow) == [n |-> t.n, kind |-> kind, allow |-> allow]

Becomes(t, u) == ceremonies' = (ceremonies \ {t}) \cup {u}
IsOver(t) == ceremonies' = ceremonies \ {t}

HookOf(t) == IF t.op = "unlock" THEN openHook ELSE createHook

Writes(t, hook) ==
    IF ~IsMounted(t) \/ t.op = "restore" THEN UNCHANGED <<createHook, openHook>>
    ELSE IF t.op = "unlock" THEN openHook' = hook /\ UNCHANGED createHook
    ELSE createHook' = hook /\ UNCHANGED openHook

(* create, open, onRestorePasskey.  The restore button stays enabled while *)
(* its prompt is up.                                                       *)
Asks(op) ==
    /\ begun < MaxCeremonies
    /\ PasskeyScreen = op
    /\ begun' = begun + 1
    /\ LET scope == IF op = "unlock" THEN recorded[account] ELSE NoOne
           hook == Track(IF op = "unlock" THEN openHook ELSE createHook, FALSE)
           t == [n |-> begun + 1, op |-> op, account |-> account, screening |-> screening,
                 generation |-> hook.generation, made |-> NoOne, credential |-> NoOne,
                 key |-> NoKey, at |-> IF op = "create" THEN "registering" ELSE "asserting"]
       IN /\ ceremonies' = ceremonies \cup {t}
          /\ prompts' = prompts \cup {Prompt(t, IF op = "create" THEN "create" ELSE "get", scope)}
          /\ Writes(t, hook)
    /\ UNCHANGED <<enrolled, restorePending, screening, visitVars, seeds, recorded, handed, dismissed,
                   strayed>>

(* A handler ends without a wallet.                                        *)
GivesUpOn(t, cancelled) ==
    /\ IsOver(t)
    /\ Writes(t, IF cancelled THEN Dismiss(HookOf(t), t.generation)
                 ELSE Reject(HookOf(t), t.generation, FALSE))
    /\ restorePending' = (restorePending /\ ~(IsMounted(t) /\ t.at \in {"opening", "opened"}))
    /\ UNCHANGED screening

(* The key goes to engine.openWalletFromPasskey().                         *)
Hands(t, u) ==
    /\ Becomes(t, [u EXCEPT !.at = "opening"])
    /\ handed' = handed \cup
         {[op |-> u.op, made |-> u.made, credential |-> u.credential, key |-> u.key]}

(* Mutant: the fallback leaves the choice of the passkey to the user.      *)
FallsBackUnscoped(t, c) ==
    /\ Becomes(t, [t EXCEPT !.at = "asserting", !.made = c])
    /\ prompts' = {p \in prompts : p.n # t.n} \cup {Prompt(t, "get", NoOne)}

(* The provider returned no output with the new passkey: read it with an   *)
(* assertion of that one.                                                  *)
FallsBack(t, c) ==
    /\ Becomes(t, [t EXCEPT !.at = "asserting", !.made = c])
    /\ prompts' = {p \in prompts : p.n # t.n} \cup {Prompt(t, "get", c)}

(* The answer of a prompt arrives in the handler that waits for it.        *)
Receives(t, p, c, text) ==
    LET key == KeyOf(text)
        u == [t EXCEPT !.credential = c, !.key = key,
                       !.made = IF p.kind = "create" THEN c ELSE @]
    IN
      \/ /\ p.kind = "create" /\ text = <<>>
         /\ FallsBack(t, c)
         /\ UNCHANGED <<screenView, handed>>
      \/ /\ (p.kind = "get" \/ text # <<>>) /\ key = NoKey
         /\ GivesUpOn(t, FALSE)
         /\ prompts' = prompts \ {p} /\ UNCHANGED handed
      \/ /\ key # NoKey
         /\ prompts' = prompts \ {p}
         /\ IF t.op = "restore"
            THEN Becomes(t, [u EXCEPT !.at = "checking"]) /\ UNCHANGED handed
            ELSE Hands(t, u)
         /\ UNCHANGED screenView

Awaits(t, p) == t.n = p.n /\ t.at = (IF p.kind = "create" THEN "registering" ELSE "asserting")

(* An answer nobody waits for any more is dropped.                         *)
PromptAnswers(p, c, text) ==
    /\ IF p.kind = "create" THEN c \notin enrolled ELSE c \in enrolled /\ p.allow \in {NoOne, c}
    /\ enrolled' = enrolled \cup {c}
    /\ \/ \E t \in ceremonies : Awaits(t, p) /\ Receives(t, p, c, text)
       \/ /\ \A t \in ceremonies : ~Awaits(t, p)
          /\ prompts' = prompts \ {p}
          /\ UNCHANGED <<ceremonies, screenView, handed>>
    /\ UNCHANGED <<visitVars, seeds, recorded, begun, dismissed, strayed>>

PromptEnds(p, ending) ==
    /\ prompts' = prompts \ {p}
    /\ \/ \E t \in ceremonies :
            /\ Awaits(t, p)
            /\ GivesUpOn(t, IsNativeCancel(MessageOf(ending)))
            /\ dismissed' = IF ending = "dismissed"
                            THEN dismissed \cup {<<t.op, t.screening, t.generation>>} ELSE dismissed
       \/ /\ \A t \in ceremonies : ~Awaits(t, p)
          /\ UNCHANGED <<ceremonies, screenView, dismissed>>
    /\ UNCHANGED <<enrolled, visitVars, seeds, recorded, begun, handed, strayed>>

(* Mutant: only the registration is timed.                                 *)
TimesOutRegistration(t) ==
    /\ t.at = "registering"
    /\ GivesUpOn(t, FALSE)

(* withPasskeyTimeout gives a prompt up, but does not end it.              *)
PasskeyTimesOut(t) ==
    /\ t.at \in {"registering", "asserting"}
    /\ GivesUpOn(t, FALSE)

-----------------------------------------------------------------------------
(* What follows the ceremony                                               *)

(* onRestorePasskey looks for an entry that has the passkey.               *)
Checks(t) ==
    /\ t.at = "checking"
    /\ IF \E a \in Accounts : recorded[a] = t.credential
       THEN GivesUpOn(t, FALSE) /\ UNCHANGED handed
       ELSE /\ Hands(t, t)
            /\ restorePending' = (restorePending \/ IsMounted(t))
            /\ UNCHANGED <<createHook, openHook, screening>>

(* The daemon derives a wallet, or unlocks the one it has with its key.    *)
DaemonOpens(t) ==
    /\ t.at = "opening"
    /\ account # NoOne
    /\ seeds[account] \in {NoKey, t.key}
    /\ seeds' = [seeds EXCEPT ![account] = t.key]
    /\ Becomes(t, [t EXCEPT !.at = "opened"])

(* Mutant: an open that fails is recorded all the same.                    *)
OpenFailsRecording(t) ==
    /\ t.at \in {"opening", "opened"}
    /\ Becomes(t, [t EXCEPT !.at = "stamping"])
    /\ UNCHANGED screenView

(* It refuses, or its answer is lost.                                      *)
OpenFails(t) ==
    /\ t.at \in {"opening", "opened"}
    /\ GivesUpOn(t, FALSE)

(* The phase moves on, and the screen goes.  onWalletCreated and           *)
(* onWalletUnlocked do not await the change of the entry, which is that of *)
(* the render the handler was made in.                                     *)
OpenReturns(t) ==
    /\ t.at = "opened"
    /\ Becomes(t, [t EXCEPT !.at = "stamping"])
    /\ IF account = NoOne THEN UNCHANGED <<walletPhase, screenView, strayed>>
       ELSE walletPhase' = "live" /\ Remounts(ceremonies \ {t})

StampsCredential(t) ==
    /\ t.at = "stamping"
    /\ recorded' = [recorded EXCEPT ![t.account] = t.credential]
    /\ IsOver(t)

CeremonySteps(t) ==
    \/ /\ PasskeyTimesOut(t) \/ OpenFails(t)
       /\ UNCHANGED <<enrolled, prompts, visitVars, seeds, recorded, passkeyPast>>
    \/ /\ Checks(t)
       /\ UNCHANGED <<enrolled, prompts, visitVars, seeds, recorded, begun, dismissed, strayed>>
    \/ /\ DaemonOpens(t)
       /\ UNCHANGED <<enrolled, prompts, screenView, visitVars, recorded, passkeyPast>>
    \/ /\ OpenReturns(t)
       /\ UNCHANGED <<enrolled, prompts, account, mode, seeds, recorded, begun, handed, dismissed>>
    \/ /\ StampsCredential(t)
       /\ UNCHANGED <<enrolled, prompts, screenView, visitVars, seeds, passkeyPast>>

PasskeysNext ==
    \/ \E a \in Accounts, m \in {"create", "restore"} : OpensAccount(a, m)
    \/ LeavesAccount \/ SetsUpAgain
    \/ \E a \in Accounts : LosesData(a)
    \/ \E op \in {"create", "restore", "unlock"} : Asks(op)
    \/ \E p \in prompts :
         \/ \E c \in Passkeys : \E text \in Renderings(Prf[c]) : PromptAnswers(p, c, text)
         \/ \E ending \in {"dismissed", "failed"} : PromptEnds(p, ending)
    \/ \E t \in ceremonies : CeremonySteps(t)

(* Timers fire and the engine settles its calls, whatever a prompt does.   *)
Advances(n) == \E t \in ceremonies : t.n = n /\ CeremonySteps(t)

PasskeysSpec ==
    /\ PasskeysInit /\ [][PasskeysNext]_passkeyVars
    /\ \A n \in 1..MaxCeremonies : WF_passkeyVars(Advances(n))

-----------------------------------------------------------------------------
(* Properties                                                              *)

(* "... short or padded key material must never reach wallet derivation":  *)
(* a key handed over is, to the byte, that of the passkey reported with    *)
(* it, and a new wallet's is that of the passkey made for it.              *)
KeysAreWhole ==
    \A h \in handed :
        /\ h.key = Prf[h.credential]
        /\ h.op = "create" => h.credential = h.made

(* The passkey an entry records opens its wallet, and later unlocks scoped *)
(* to it succeed, as long as no ceremony has outlived its screen.          *)
RecordsOpen ==
    ~strayed => \A a \in Accounts :
        recorded[a] # NoOne /\ seeds[a] # NoKey => seeds[a] = Prf[recorded[a]]

(* What a rendering of an output decodes to is that output, or has not its *)
(* length.                                                                 *)
CodecKeeps(output) ==
    \A text \in Renderings(output) :
        LET decoded == TextToBytes(text) IN
          Len(decoded.bytes) = Len(output) => decoded.bytes = output

(* Key material is whole, and the entries lead back to it.                 *)
KeysAreTrue == KeysAreWhole /\ RecordsOpen

(* "... so useWalletPasskey's createPending/openPending flags cannot stick *)
(* until an app restart", though a prompt never answers.                   *)
PasskeyPending == createHook.pending \/ openHook.pending \/ restorePending
PasskeysEnd == PasskeyPending ~> ~PasskeyPending

-----------------------------------------------------------------------------
(* Claims of comments that the code does not keep                          *)

(* "A cancelled ceremony (PasskeyCancelledError) rejects but is never      *)
(* recorded into createError/openError."                                   *)
DismissedIsNoError ==
    /\ <<"create", screening, createHook.generation>> \in dismissed => ~createHook.error
    /\ <<"unlock", screening, openHook.generation>> \in dismissed => ~openHook.error

(* "... (and, for a passkey unlock, the credential id used) on the         *)
(* registry entry": RecordsOpen of ceremonies that outlive their screen.   *)
StraysRecordOpen ==
    \A a \in Accounts :
        recorded[a] # NoOne /\ seeds[a] # NoKey => seeds[a] = Prf[recorded[a]]
=============================================================================
