---------------------------- MODULE PasteInjector ----------------------------
(***************************************************************************)
(* Inserting dictated text by way of the clipboard: MacOSPasteInjector     *)
(* (internal/inject/macos.go), the broker client (broker.go) and the       *)
(* broker in the Mac app (PasteBroker.swift), which checks the             *)
(* Accessibility permission and posts Cmd+V from its main queue; a service *)
(* without a broker posts the keys itself (paste_driver_darwin.go).  The   *)
(* phone's Return key goes the same way, past the clipboard.               *)
(*                                                                         *)
(* Every finished dictation inserts from a goroutine of its own            *)
(* (queueIOSFinalTextInsertion), and the injector has no lock, so jobs     *)
(* may overlap; the user copies things and switches the permission at any  *)
(* time.  The clipboard holds something the user copied or the text of a   *)
(* job, which the job itself stands for.                                   *)
(***************************************************************************)
EXTENDS Integers, FiniteSets

CONSTANTS
    Jobs,      \* insertions, and the texts they insert
    Presses,   \* Return key presses
    Clips,     \* things the user copies
    First      \* what the user has copied at the start

ASSUME InjectorAssumption ==
    First \in Clips /\ Jobs \cap Clips = {} /\ Jobs \cap Presses = {}

VARIABLES
    clipboard,
    trusted,    \* AXIsProcessTrusted()
    pc,         \* where each insertion and each key press is
    orig,       \* originalClipboard
    driver,     \* defaultPasteDriver: by way of the broker, or not
    broker,     \* the broker's handling of a paste or key press request
    keys,       \* Cmd+V and Return events the focused app has not handled yet
    lastCopy,   \* history: what the user copied last
    copied,     \* history: everything the user has copied
    tampered,   \* history: jobs whose text was replaced while they were active
    overlapped, \* history: two insertions were active at once
    raced,      \* history: the user copied between a job's read and its next write
    permitted   \* history: the permission was there at some time

jobVars == <<pc, orig>>
brokerVars == <<driver, broker, keys>>
history == <<lastCopy, copied, tampered, overlapped, raced, permitted>>
vars == <<clipboard, trusted, jobVars, brokerVars, history>>

Over == {"restored", "skipped", "unrestored", "pressed", "failed", "denied"}
Stages == {"idle", "read", "write", "paste", "pasting", "wait", "check", "restore"}
             \union Over

\* The job's text is on the clipboard, as far as the job knows.
Holding == {"paste", "pasting", "wait", "check", "restore"}
Active(j) == pc[j] \notin Over \union {"idle"}
Calls == Jobs \union Presses

\* defaultPasteDriver: the broker's socket (or URL) of the environment, or none.
Drivers == {"broker", "direct"}

TypeOK ==
    /\ clipboard \in Clips \union Jobs
    /\ trusted \in BOOLEAN
    /\ pc \in [Calls -> Stages]
    /\ orig \in [Jobs -> Clips \union Jobs]
    /\ driver \in Drivers
    /\ broker \in [Calls -> {"none", "asked", "queued", "posted", "refused"}]
    /\ keys \subseteq Calls
    /\ lastCopy \in Clips
    /\ copied \subseteq Clips
    /\ tampered \subseteq Jobs
    /\ {overlapped, raced, permitted} \subseteq BOOLEAN

Init ==
    /\ clipboard = First
    /\ trusted \in BOOLEAN
    /\ pc = [j \in Calls |-> "idle"]
    /\ orig = [j \in Jobs |-> First]
    /\ driver \in Drivers
    /\ broker = [j \in Calls |-> "none"]
    /\ keys = {}
    /\ lastCopy = First
    /\ copied = {First}
    /\ tampered = {}
    /\ overlapped = FALSE
    /\ raced = FALSE
    /\ permitted = trusted

Goto(j, stage) == pc' = [pc EXCEPT ![j] = stage]

\* The clipboard gets value v: whoever holds it is tampered with.
Put(v, writer) ==
    /\ clipboard' = v
    /\ tampered' = tampered \union {k \in Jobs \ writer : pc[k] \in Holding}

-----------------------------------------------------------------------------
(* Insert, step by step.  Every external command may fail, or be cut off   *)
(* by the 10 s context of the insertion.                                   *)

\* What the broker answers to "preflight".
NotAsked == TRUE                          \* fault: no preflight
PreflightPasses == trusted

Preflight(j) ==
    /\ pc[j] = "idle"
    /\ \/ PreflightPasses /\ Goto(j, "read")
       \/ ~PreflightPasses /\ Goto(j, "denied")
       \/ Goto(j, "failed")
    /\ overlapped' = (overlapped \/ \E k \in Jobs \ {j} : Active(k))
    /\ UNCHANGED <<clipboard, trusted, orig, brokerVars, lastCopy, copied,
                   tampered, raced, permitted>>

\* clipboard.Read
ReadOriginal(j) ==
    /\ pc[j] = "read"
    /\ \/ orig' = [orig EXCEPT ![j] = clipboard] /\ Goto(j, "write")
       \/ UNCHANGED orig /\ Goto(j, "failed")
    /\ UNCHANGED <<clipboard, trusted, brokerVars, history>>

\* clipboard.Write(text); a pbcopy that is cut off may have written.
WriteText(j) ==
    /\ pc[j] = "write"
    /\ Put(j, {j})
    /\ Goto(j, "paste") \/ Goto(j, "failed")
    /\ UNCHANGED <<trusted, orig, brokerVars, lastCopy, copied, overlapped,
                   raced, permitted>>

ErrorIgnored == "paste"                   \* fault: pastes all the same
WriteError == "failed"

WriteTextFails(j) ==
    /\ pc[j] = "write"
    /\ Goto(j, WriteError)
    /\ UNCHANGED <<clipboard, trusted, orig, brokerVars, history>>

\* pasteDriver.Paste: the request goes to the broker.
Ask(j) ==
    /\ driver = "broker"
    /\ Goto(j, "pasting")
    /\ broker' = [broker EXCEPT ![j] = "asked"]
    /\ UNCHANGED <<clipboard, trusted, orig, driver, keys, history>>

AskPaste(j) == pc[j] = "paste" /\ Ask(j)

\* What Insert goes on with, and KeyPress ends with.
Posted(j) == IF j \in Jobs THEN "wait" ELSE "pressed"

\* The broker's answer comes back.
PasteAnswered(j) ==
    /\ pc[j] = "pasting"
    /\ \/ broker[j] = "posted" /\ Goto(j, Posted(j))
       \/ broker[j] = "refused" /\ Goto(j, "denied")
    /\ UNCHANGED <<clipboard, trusted, orig, brokerVars, history>>

\* nativePasteDriver: the permission is asked for again, and the event posted.
PostDirectly(j) ==
    /\ driver = "direct"
    /\ \/ trusted /\ Goto(j, Posted(j)) /\ keys' = keys \union {j}
       \/ ~trusted /\ Goto(j, "denied") /\ UNCHANGED keys
       \/ Goto(j, "failed") /\ UNCHANGED keys         \* ctx is done
    /\ UNCHANGED <<clipboard, trusted, orig, driver, broker, history>>

PasteDirectly(j) == pc[j] = "paste" /\ PostDirectly(j)

\* MacOSPasteInjector.KeyPress: no preflight, no clipboard.
AskPress(k) == pc[k] = "idle" /\ Ask(k)
PressDirectly(k) == pc[k] = "idle" /\ PostDirectly(k)

\* No answer by the deadline (or no connection): the broker may still post.
NoDeadline(j) == FALSE                    \* fault: the connection has no deadline
DeadlinePasses(j) == pc[j] = "pasting"

PasteTimesOut(j) ==
    /\ DeadlinePasses(j)
    /\ Goto(j, "failed")
    /\ UNCHANGED <<clipboard, trusted, orig, brokerVars, history>>

\* waiter(restoreDelay); the context may end first, then nothing is restored.
Wait(j) ==
    /\ pc[j] = "wait"
    /\ Goto(j, "check") \/ Goto(j, "unrestored")
    /\ UNCHANGED <<clipboard, trusted, orig, brokerVars, history>>

\* bytes.Equal(currentClipboard, insertedClipboard)
NotCompared(j) == TRUE                    \* fault: restores in any case
StillInserted(j) == clipboard = j

Check(j) ==
    /\ pc[j] = "check"
    /\ \/ StillInserted(j) /\ Goto(j, "restore")
       \/ ~StillInserted(j) /\ Goto(j, "skipped")
       \/ Goto(j, "unrestored")
    /\ UNCHANGED <<clipboard, trusted, orig, brokerVars, history>>

\* clipboard.Write(originalClipboard)
Restore(j) ==
    /\ pc[j] = "restore"
    /\ Put(orig[j], {j})
    /\ Goto(j, "restored") \/ Goto(j, "unrestored")
    /\ UNCHANGED <<trusted, orig, brokerVars, lastCopy, copied, overlapped,
                   raced, permitted>>

RestoreFails(j) ==
    /\ pc[j] = "restore"
    /\ Goto(j, "unrestored")
    /\ UNCHANGED <<clipboard, trusted, orig, brokerVars, history>>

-----------------------------------------------------------------------------
(* The broker, the focused app, and the user.                              *)

\* handle: AXIsProcessTrusted(), then the main queue.
UnknownVerdict == IF trusted THEN "bad_request" ELSE "refused"  \* fault: wrong op
Verdict == IF trusted THEN "queued" ELSE "refused"

BrokerChecks(j) ==
    /\ broker[j] = "asked"
    /\ broker' = [broker EXCEPT ![j] = Verdict]
    /\ UNCHANGED <<clipboard, trusted, jobVars, driver, keys, history>>

\* postCommandV or postKeyPress on the main queue, then the answer.
BrokerPosts(j) ==
    /\ broker[j] = "queued"
    /\ broker' = [broker EXCEPT ![j] = "posted"]
    /\ keys' = keys \union {j}
    /\ UNCHANGED <<clipboard, trusted, jobVars, driver, history>>

\* The focused app handles Cmd+V and pastes the clipboard, or the Return key.
AppPastes(j) ==
    /\ j \in keys
    /\ keys' = keys \ {j}
    /\ UNCHANGED <<clipboard, trusted, jobVars, driver, broker, history>>

UserCopies(c) ==
    /\ c \notin copied
    /\ Put(c, {})
    /\ lastCopy' = c
    /\ copied' = copied \union {c}
    /\ raced' = (raced \/ \E j \in Jobs : pc[j] \in {"write", "restore"})
    /\ UNCHANGED <<trusted, jobVars, brokerVars, overlapped, permitted>>

SwitchPermission ==
    /\ trusted' = ~trusted
    /\ permitted' = (permitted \/ trusted')
    /\ UNCHANGED <<clipboard, jobVars, brokerVars, lastCopy, copied, tampered,
                   overlapped, raced>>

-----------------------------------------------------------------------------
\* What Insert and KeyPress do on their own, once they are called.
Answered(j) == PasteAnswered(j) \/ PasteTimesOut(j)

Step(j) ==
    \/ ReadOriginal(j) \/ WriteText(j) \/ WriteTextFails(j) \/ AskPaste(j)
    \/ PasteDirectly(j) \/ Answered(j) \/ Wait(j) \/ Check(j)
    \/ Restore(j) \/ RestoreFails(j)

Next ==
    \/ \E j \in Jobs : Preflight(j) \/ Step(j)
    \/ \E k \in Presses : AskPress(k) \/ PressDirectly(k) \/ Answered(k)
    \/ \E j \in Calls : BrokerChecks(j) \/ BrokerPosts(j) \/ AppPastes(j)
    \/ \E c \in Clips : UserCopies(c)
    \/ SwitchPermission

Spec == Init /\ [][Next]_vars

\* The goroutine of an insertion and the handler of a key press run on; the
\* broker, the focused app and the user owe nothing.
FairSpec ==
    /\ Spec
    /\ \A j \in Jobs : WF_vars(Step(j))
    /\ \A k \in Presses : WF_vars(Answered(k))

-----------------------------------------------------------------------------
(* Properties.                                                             *)

\* Without the permission the clipboard is never touched and no key is posted,
\* however many insertions and key presses are tried, by the broker or without
\* it (the preflight of Insert, the check of each driver).
MissingPermissionUntouched == ~permitted => clipboard = lastCopy /\ keys = {}

\* A Cmd+V handled within the restore delay pastes the text of its job, unless
\* somebody else has written the clipboard since (the order of Insert's steps).
PastesItsText ==
    \A j \in Jobs : j \in keys /\ pc[j] \in Holding \ {"restore"} /\ j \notin tampered
        => clipboard = j

\* Insertions that ended well leave the user's own clipboard behind, also when
\* the user copied something meanwhile; the only exceptions are overlapping
\* insertions and a copy in the instant between one of Insert's reads and the
\* write that follows it.
ClipboardGivenBack ==
    (/\ \A j \in Jobs : pc[j] \in {"idle", "restored", "skipped"}
     /\ ~overlapped
     /\ ~raced)
    => clipboard = lastCopy

\* Every insertion and every key press ends although the broker never answers
\* (the deadline the broker client puts on its connection).
InsertionEnds == \A j \in Calls : Active(j) ~> pc[j] \in Over

\* docs/development-plan.md: "Missing permission does not mutate the clipboard."
DeniedLeavesClipboard == \A j \in Jobs : pc[j] = "denied" => clipboard # j

\* docs/development-plan.md: "Clipboard is restored after successful insertion."
SuccessRestoresClipboard ==
    (/\ \A j \in Jobs : pc[j] \in {"idle", "restored", "skipped"}
     /\ ~raced)
    => clipboard = lastCopy
==============================================================================
