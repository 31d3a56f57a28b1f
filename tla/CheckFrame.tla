----------------------------- MODULE CheckFrame -----------------------------
(***************************************************************************)
(* What the conditions have in common: options are typed and accepted or   *)
(* refused, Check runs step by step while the world that it looks at       *)
(* changes, and it replies once.  A check takes time, so its reply is      *)
(* compared with everything that was the case while it ran: held and       *)
(* lacked say whether what was asked was true, or false, at some moment    *)
(* between its start and its reply.                                        *)
(***************************************************************************)

VARIABLES
    request,  \* the options of the condition, with its backend
    stage,    \* "typed", "refused", the step that Check takes next, or "done"
    world,    \* what the check looks at
    hand,     \* what it has of it so far
    reply,    \* "none", "satisfied", "unsatisfied", "failed" (unsatisfied, for an
              \* error met on the way) or "fatal"
    held, lacked

frameVars == <<request, stage, world, hand, reply, held, lacked>>

Nothing == [backend |-> "none"]

FrameInit ==
    /\ request = Nothing /\ world = Nothing /\ hand = Nothing
    /\ stage = "typed" /\ reply = "none"
    /\ held = FALSE /\ lacked = FALSE

Running(backend) ==
    request.backend = backend /\ stage \notin {"typed", "refused", "done"}

\* The command line refuses the options (ExitInvalid), or the first check begins.
Parse(options, accepted, situation, empty) ==
    /\ stage = "typed"
    /\ request' = options
    /\ IF accepted THEN stage' = "check" /\ world' = situation /\ hand' = empty
                   ELSE stage' = "refused" /\ UNCHANGED <<world, hand>>
    /\ UNCHANGED reply

Reply(r) ==
    /\ stage' = "done" /\ reply' = r
    /\ UNCHANGED <<request, world, hand>>

Proceed(next) ==
    /\ stage' = next
    /\ UNCHANGED <<request, world, hand, reply>>

Turns(situation) ==
    /\ world' = situation
    /\ UNCHANGED <<request, stage, hand, reply>>

\* Every action of a backend ends with this: is what was asked true now?
Observe(truth) ==
    /\ held' = (held \/ (stage' # "refused" /\ truth))
    /\ lacked' = (lacked \/ (stage' # "refused" /\ ~truth))

\* What a reply promises: it was right at some moment of the check.
ReplyWasRight ==
    /\ reply = "satisfied" => held
    /\ reply = "unsatisfied" => lacked
=============================================================================
