------------------------------- MODULE XhSession -------------------------------
(***************************************************************************)
(* What src/cpp/xhook/xh_core.c promises to the threads that call it,      *)
(* without mutexes, condition variable, once-flags or program counters: a  *)
(* list of hooks, a set of files known to be hooked, at most one walk over *)
(* the mapped files at a time, and what each answer means.                 *)
(*                                                                         *)
(* The promises hold however the calls overlap.  XhCore implements this    *)
(* module under the mapping Session of its last section.                   *)
(***************************************************************************)
CONSTANTS Clients, Servers, Infos, HookInfos, Libs, Nobody

VARIABLES
  hooks,       \* the infos registered
  known,       \* the files hooked by a walk and still mapped at the last one
  applied,     \* applied[l]: the infos l was last hooked with
  walker,      \* who walks the mapped files, or Nobody
  pending,     \* has an asynchronous refresh been asked for and not taken?
  taken,       \* the servers that took a request and have not walked yet
  ready, serving,    \* may a refresh, an asynchronous refresh, be accepted?
  asked, answer      \* the call each client waits for; the last answer

vars == <<hooks, known, applied, walker, pending, taken, ready, serving, asked, answer>>

Init ==
  /\ hooks = {} /\ known = {} /\ applied = [l \in Libs |-> {}]
  /\ walker = Nobody /\ pending = FALSE /\ taken = {}
  /\ ready = FALSE /\ serving = FALSE
  /\ asked = [c \in Clients |-> "none"] /\ answer = [c \in Clients |-> "none"]

-----------------------------------------------------------------------------
Call(c, o) ==
  /\ asked[c] = "none" /\ asked' = [asked EXCEPT ![c] = o]
  /\ answer' = [answer EXCEPT ![c] = "none"]
  /\ UNCHANGED <<hooks, known, applied, walker, pending, taken, ready, serving>>

Answer(c, r) ==
  /\ asked'  = [asked EXCEPT ![c] = "none"]
  /\ answer' = [answer EXCEPT ![c] = r]

\* register and ignore: the info is in the list when the call answers ok.
Accept(c) ==
  /\ asked[c] = "register" /\ Answer(c, "ok")
  /\ \E i \in Infos : hooks' = hooks \cup {i}
  /\ UNCHANGED <<known, applied, walker, pending, taken, ready, serving>>

\* An error leaves everything as it was.  A refresh is refused only while the
\* session is not ready for it: never between a success and the next clear.
Refuse(c) ==
  /\ \/ asked[c] = "register"
     \/ asked[c] \in {"sync", "async"} /\ ~ready
     \/ asked[c] = "async" /\ ~serving
  /\ Answer(c, "failed")
  /\ UNCHANGED <<hooks, known, applied, walker, pending, taken, ready, serving>>

Open(c) ==
  /\ asked[c] \in {"sync", "async"} /\ ready' = TRUE
  /\ UNCHANGED <<hooks, known, applied, walker, pending, taken, serving, asked, answer>>

Serve(c) ==
  /\ asked[c] = "async" /\ serving' = TRUE
  /\ UNCHANGED <<hooks, known, applied, walker, pending, taken, ready, asked, answer>>

\* An asynchronous refresh answers ok when its request is recorded; requests
\* made before one is taken are one request.
Ask(c) ==
  /\ asked[c] = "async" /\ Answer(c, "ok") /\ pending' = TRUE
  /\ UNCHANGED <<hooks, known, applied, walker, taken, ready, serving>>

Take(s) ==
  /\ pending /\ pending' = FALSE /\ taken' = taken \cup {s}
  /\ UNCHANGED <<hooks, known, applied, walker, ready, serving, asked, answer>>

-----------------------------------------------------------------------------
\* One walk at a time, for a client that asked for it or for a request taken.
StartWalk(t) ==
  /\ walker = Nobody
  /\ \/ t \in taken
     \/ t \in Clients /\ asked[t] = "sync"
  /\ walker' = t /\ taken' = taken \ {t}
  /\ UNCHANGED <<hooks, known, applied, pending, ready, serving, asked, answer>>

\* Only a walk hooks a file, with the list as it is, and never with none.
Apply(t, l) ==
  /\ walker = t /\ hooks \cap HookInfos # {}
  /\ applied' = [applied EXCEPT ![l] = hooks] /\ known' = known \cup {l}
  /\ UNCHANGED <<hooks, walker, pending, taken, ready, serving, asked, answer>>

\* A synchronous refresh answers ok when its own walk is over; the files no
\* longer mapped are forgotten.
EndWalk(t) ==
  /\ walker = t /\ walker' = Nobody
  /\ known' \subseteq known
  /\ \/ t \in Clients /\ Answer(t, "ok")
     \/ t \in Servers /\ UNCHANGED <<asked, answer>>
  /\ UNCHANGED <<hooks, applied, pending, taken, ready, serving>>

-----------------------------------------------------------------------------
Stop(c) ==
  /\ asked[c] = "clear" /\ serving' = FALSE
  /\ UNCHANGED <<hooks, known, applied, walker, pending, taken, ready, asked, answer>>

Close(c) ==
  /\ asked[c] = "clear" /\ ready' = FALSE
  /\ UNCHANGED <<hooks, known, applied, walker, pending, taken, serving, asked, answer>>

\* Only clear forgets hooks, all of them, and never under a walk.
Erase(c) ==
  /\ asked[c] = "clear" /\ walker = Nobody /\ Answer(c, "ok")
  /\ hooks' = {} /\ known' = {}
  /\ UNCHANGED <<applied, walker, pending, taken, ready, serving>>

Next ==
  \/ \E c \in Clients, o \in {"register", "sync", "async", "clear"} : Call(c, o)
  \/ \E c \in Clients : \/ Accept(c) \/ Refuse(c) \/ Open(c) \/ Serve(c) \/ Ask(c)
                        \/ Stop(c) \/ Close(c) \/ Erase(c)
  \/ \E s \in Servers : Take(s)
  \/ \E t \in Clients \cup Servers : \/ StartWalk(t) \/ EndWalk(t)
                                     \/ \E l \in Libs : Apply(t, l)

Spec == Init /\ [][Next]_vars
=============================================================================
