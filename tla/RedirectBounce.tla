--------------------------- MODULE RedirectBounce ---------------------------
(***************************************************************************)
(* The bounded bounce experiment of the README: a client sends one request *)
(* for a key and follows the redirections it gets, through listeners that  *)
(* all inject redirections up to the same cutoff, while other clients use  *)
(* up command indexes and may reset.                                       *)
(*                                                                         *)
(* The client and the upstream are external: the client keeps retrying,    *)
(* the owner of a slot executes the request, every other node redirects to *)
(* the owner.                                                              *)
(***************************************************************************)
EXTENDS TopologyRedirect

CONSTANTS
    Bounces,       \* the settings all connections start with
    MaxResets      \* bound on resets

ASSUME BouncesAssumption ==
    Bounces \subseteq RedirectConfigs \ {Off} /\ MaxResets \in Nat

VARIABLES
    bounce,        \* the one of them they did start with
    at,            \* the listener the client sends its request to next
    served,        \* the client has a reply that is not a redirection
    runs,          \* how often the upstream executed the request
    resets         \* resets so far

bounceVars == <<vars, bounce, at, served, runs, resets>>

Key == 0

BounceInit ==
    /\ bounce \in Bounces
    /\ InitWith({[mode |-> "OFF", probability |-> "ALWAYS", redirect |-> bounce]})
    /\ at \in Conns
    /\ served = FALSE
    /\ runs = 0
    /\ resets = 0

Send ==
    /\ ~served
    /\ StartCommand(at, <<Key>>, TRUE)
    /\ UNCHANGED <<bounce, at, served, runs, resets>>

Inject(c) == (Decide(c) \/ After(c)) /\ UNCHANGED <<bounce, at, served, runs, resets>>

\* Nobody redirects a key whose slot no node owns.
Exchange(c) ==
    /\ \/ /\ c \in Owners(Key) \/ Owners(Key) = {}
          /\ Forward(c, Other("value"))
          /\ runs' = runs + 1
       \/ \E owner \in Owners(Key) \ {c} :
              /\ Forward(c, Redirection("MOVED", Key, Addr(owner)))
              /\ UNCHANGED runs
    /\ UNCHANGED <<bounce, at, served, resets>>

\* The client reads the reply and follows it.
Follow(c) ==
    /\ Finish(c)
    /\ IF IsRedirect(answer[c])
       THEN at' = answer[c].server.port /\ UNCHANGED served
       ELSE served' = TRUE /\ UNCHANGED at
    /\ UNCHANGED <<bounce, runs, resets>>

\* The client finds the connection closed and opens another.
Reopen(c) == at = c /\ Reconnect(c) /\ UNCHANGED <<bounce, at, served, runs, resets>>

OtherCommand == CommandElsewhere /\ UNCHANGED <<bounce, at, served, runs, resets>>

OtherReset ==
    /\ resets < MaxResets
    /\ resets' = resets + 1
    /\ ResetElsewhere
    /\ UNCHANGED <<bounce, at, served, runs>>

\* A reset on one of the connections, which keeps its settings.
OwnReset(c) ==
    /\ resets < MaxResets
    /\ resets' = resets + 1
    /\ ModeReset(c)
    /\ UNCHANGED <<bounce, at, served, runs>>

BounceStep == Send \/ \E c \in Conns : Inject(c) \/ Exchange(c) \/ Follow(c) \/ Reopen(c)

BounceNext ==
    \/ BounceStep
    \/ OtherCommand \/ OtherReset \/ \E c \in Conns : OwnReset(c)

BounceSpec == BounceInit /\ [][BounceNext]_bounceVars /\ WF_bounceVars(BounceStep)

-----------------------------------------------------------------------------
(* Properties. *)

\* README: "Stopping injection permits normal routing/recovery".  The cutoff is
\* an absolute command index that every retry uses up, so a client that keeps
\* following redirections is served, whatever resets re-arm the cutoff.
EventuallyServed == <>served

\* README: "BEFORE prevents the selected command from executing upstream",
\* whereas AFTER lets "retrying a write ... execute it again".  However often
\* the request was redirected BEFORE forwarding, it is executed once, by the
\* exchange whose reply the client gets.
ExecutedOnce ==
    bounce.phase = "BEFORE"
        => /\ served => runs = 1
           /\ runs <= 1
           /\ \A c \in Conns : pc[c] \in {"before", "forward"} => runs = 0
=============================================================================
