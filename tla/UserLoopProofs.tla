---------------------------- MODULE UserLoopProofs ----------------------------
(***************************************************************************)
(* Proofs about UserLoop for any number of threads, signals, timers and    *)
(* steps: whose context a sigreturn puts back, what a thread finds in the  *)
(* floating-point registers, and when SIGALRM is sent.                     *)
(***************************************************************************)
EXTENDS UserLoop, TLAPS

------------------------------------------------------------------------------
(* The inductive invariant. *)

Context == [of : Nat, pc : Nat, fp : Nat, need : BOOLEAN]
SignalType == [pending : SUBSET Sigs, processing : SUBSET Sigs,
               handler : [Sigs -> {"none", "ign", "dfl", "fn"}], saved : Context]
Places == {"none", "head", "user", "sleep", "sigwait", "gone"}

LoopTypes ==
    /\ at \in [Threads -> Places]
    /\ share \in [Threads -> Threads]
    /\ sig \in [Threads -> SignalType]
    /\ ctx \in [Threads -> Context]
    /\ reg \in Nat
    /\ main \in [Threads -> Nat] /\ fpwant \in [Threads -> Nat] /\ in \in [Threads -> Nat]

\* A thread that is not there yet has its own Signal, which nobody shares, and
\* does not own the registers.
Family ==
    /\ \A t \in Threads : at[t] # "none" => at[share[t]] # "none"
    /\ \A t \in Threads : at[t] = "none" => share[t] = t /\ in[t] = 0
    /\ belong # 0 => belong \in Threads /\ at[belong] # "none"

\* Only the thread being polled is in user mode, and it owns the registers.
OneRuns == \A t \in Threads : at[t] = "user" => cur = t /\ belong = t

\* At most one signal of a Signal is processed, and while a thread is in a
\* handler one is; no other thread of the Signal is in a handler then.
OneHandler ==
    /\ \A g \in Threads : \A a, b \in sig[g].processing : a = b
    /\ \A t \in Threads : share[t] \notin odd /\ in[t] # 0 => sig[share[t]].processing # {}
    /\ \A t, u \in Threads :
           share[t] \notin odd /\ share[t] = share[u] /\ in[t] # 0 /\ in[u] # 0 => t = u

\* The context that sigreturn or user mode goes on with is that of the thread.
Resumes(t) ==
    /\ in[t] = 0 => ctx[t].of = t /\ ctx[t].pc = main[t]
    /\ in[t] # 0 => sig[share[t]].saved.of = t /\ sig[share[t]].saved.pc = main[t]

\* What the thread has put in the registers is there or in its fp_ctx, and in
\* both when fp_ctx is not marked and the hart has not marked the registers.
FpThere(t) ==
    fpwant[t] # Any =>
        /\ belong = t => reg = fpwant[t]
        /\ belong # t => ctx[t].fp = fpwant[t]
        /\ belong = t /\ ~ ctx[t].need /\ (fs = "Clean" \/ at[t] # "user") => ctx[t].fp = fpwant[t]

\* The saved context has what the registers held when the handler was entered,
\* unless it is marked.
FpSaved(t) ==
    in[t] \notin {0, 1} /\ ~ sig[share[t]].saved.need => sig[share[t]].saved.fp + 1 = in[t]

Right(t) ==
    at[t] \notin {"none", "gone"} /\ share[t] \notin odd => Resumes(t) /\ FpThere(t) /\ FpSaved(t)

LoopInv ==
    /\ LoopTypes /\ Family /\ OneRuns /\ OneHandler
    /\ \A t \in Threads : Right(t)
    /\ died = "sigreturn" => odd # {}

-------------------------------------------------------------------------------
(* Signals. *)

\* z differs from s only in what is pending or in a handler.
Quiet(s, z) ==
    /\ z \in [Threads -> SignalType]
    /\ \A g \in Threads : z[g].processing = s[g].processing /\ z[g].saved = s[g].saved

\* Signals are added to or taken from what is pending (send_signal, the scan in
\* userloop).
LEMMA PendingQuiet ==
    ASSUME NEW s \in [Threads -> SignalType], NEW x, NEW P, x \in Threads => P \subseteq Sigs
    PROVE  Quiet(s, [s EXCEPT ![x].pending = P])
  BY Zenon DEF Quiet, SignalType

\* An entry of signal_handler is set (sys_sigaction).
LEMMA HandlerQuiet ==
    ASSUME NEW s \in [Threads -> SignalType], NEW x \in Threads, NEW a \in Sigs,
           NEW h \in {"ign", "dfl", "fn"}
    PROVE  Quiet(s, [s EXCEPT ![x].handler[a] = h])
  BY DEF Quiet, SignalType

LEMMA QuietChain ==
    ASSUME NEW s, NEW y, NEW z, Quiet(s, y), Quiet(y, z)
    PROVE  Quiet(s, z)
  BY DEF Quiet

LEMMA QuietSame ==
    ASSUME NEW s \in [Threads -> SignalType]
    PROVE  Quiet(s, s)
  BY DEF Quiet

\* SIGCHLD for the parent of a thread that ends (do_exit).
LEMMA ExitQuiet ==
    ASSUME NEW t \in Threads, NEW s, Quiet(sig, s), DoExit(t, s)
    PROVE  Quiet(sig, sig')
<1>1. CASE parent[t] = 0
  BY <1>1 DEF DoExit
<1>2. CASE parent[t] # 0
  <2> DEFINE x == share[parent[t]]
             P == s[x].pending \cup {Chld}
  <2>1. s \in [Threads -> SignalType]
    BY DEF Quiet
  <2>2. x \in Threads => P \subseteq Sigs
    BY <2>1, LoopBounds DEF SignalType
  <2>3. Quiet(s, [s EXCEPT ![x].pending = P])
    BY <2>1, <2>2, PendingQuiet, Zenon
  <2>4. sig' = [s EXCEPT ![x].pending = P]
    BY <1>2 DEF DoExit
  <2> QED
    BY <2>3, <2>4, QuietChain
<1> QED
  BY <1>1, <1>2

-------------------------------------------------------------------------------
(* Steps that leave the contexts, the registers and the handlers to themselves. *)

\* Threads wait, end or come back to the head of the loop while none of them is
\* in user mode, or nothing moves (CallEnds, DefaultEnds, the timers' tasks).
Rests ==
    /\ at' \in [Threads -> Places]
    /\ \A u \in Threads : at'[u] # at[u] =>
           at[u] \notin {"none", "gone", "user"} /\ at'[u] \notin {"none", "user"}
    /\ cur' = cur \/ \A u \in Threads : at[u] # "user"
    /\ Quiet(sig, sig')
    /\ died' \in {died, "timer"}
    /\ UNCHANGED <<share, ctx, reg, belong, fs, main, fpwant, in, odd>>

LEMMA RestsKeeps ==
    ASSUME LoopInv, Rests
    PROVE  LoopInv'
<1>1. LoopTypes'
  BY DEF LoopInv, LoopTypes, Rests, Quiet
<1>2. Family'
  BY DEF LoopInv, LoopTypes, Family, Rests
<1>3. OneRuns'
  BY DEF LoopInv, OneRuns, Rests
<1>4. OneHandler'
  BY Zenon DEF LoopInv, LoopTypes, OneHandler, Rests, Quiet
<1>5. ASSUME NEW u \in Threads
      PROVE  Right(u)'
  <2>1. Right(u) /\ share[u] \in Threads
    BY DEF LoopInv, LoopTypes
  <2> QED
    BY <2>1 DEF Right, Resumes, FpThere, FpSaved, Rests, Quiet
<1>6. died' = "sigreturn" => odd' # {}
  BY DEF LoopInv, Rests
<1> QED
  BY <1>1, <1>2, <1>3, <1>4, <1>5, <1>6 DEF LoopInv

\* The thread in user mode is back in the kernel, at the head of the loop, in a
\* wait or at its end, and fp_ctx_user_to_kernel has marked its context.
Traps(t, w) ==
    /\ InUser(t)
    /\ at' = [at EXCEPT ![t] = w]
    /\ ctx' = Trapped(t)
    /\ Quiet(sig, sig')
    /\ UNCHANGED <<share, reg, belong, fs, died, main, fpwant, in, odd>>

LEMMA TrapsKeeps ==
    ASSUME LoopInv, NEW t \in Threads, NEW w \in {"head", "sleep", "sigwait", "gone"}, Traps(t, w)
    PROVE  LoopInv'
<1>1. LoopTypes'
  BY ZenonT(30) DEF LoopInv, LoopTypes, Traps, Trapped, Quiet, Places, Context
<1>2. Family'
  BY DEF LoopInv, LoopTypes, Family, Traps, InUser
<1>3. OneRuns'
  BY DEF LoopInv, LoopTypes, OneRuns, Traps, InUser
<1>4. OneHandler'
  BY ZenonT(30) DEF LoopInv, LoopTypes, OneHandler, Traps, Quiet
<1>5. ASSUME NEW u \in Threads
      PROVE  Right(u)'
  <2>1. Right(u) /\ share[u] \in Threads /\ belong = t /\ at[t] = "user"
    BY DEF LoopInv, LoopTypes, OneRuns, Traps, InUser
  <2>2. /\ ctx'[u].of = ctx[u].of /\ ctx'[u].pc = ctx[u].pc /\ ctx'[u].fp = ctx[u].fp
        /\ ~ ctx'[u].need => ~ ctx[u].need
        /\ u = t /\ ~ ctx'[u].need => fs = "Clean"
    BY Zenon DEF LoopInv, LoopTypes, Context, Traps, Trapped
  <2>3. at'[u] \notin {"none", "gone"} => at[u] \notin {"none", "gone"}
    BY <2>1 DEF LoopInv, LoopTypes, Traps
  <2>4. Resumes(u) => Resumes(u)'
    BY <2>1, <2>2 DEF Resumes, Traps, Quiet
  <2>5. FpThere(u) => FpThere(u)'
    BY <2>1, <2>2 DEF FpThere, Traps
  <2>6. FpSaved(u) => FpSaved(u)'
    BY <2>1 DEF FpSaved, Traps, Quiet
  <2> QED
    BY <2>1, <2>3, <2>4, <2>5, <2>6 DEF Right, Traps
<1>6. died' = "sigreturn" => odd' # {}
  BY DEF LoopInv, Traps
<1> QED
  BY <1>1, <1>2, <1>3, <1>4, <1>5, <1>6 DEF LoopInv

-------------------------------------------------------------------------------
(* Into user mode. *)

\* fp_ctx_kernel_to_user: the registers of the old owner are written back if its
\* context is marked, and are in it already if it is not.
LEMMA SwitchRight ==
    ASSUME LoopInv, NEW t \in Threads, AtHead(t),
           NEW c \in [Threads -> Context],
           \A u \in Threads : c[u].fp = ctx[u].fp /\ c[u].need = ctx[u].need,
           FpCtxKernelToUser(t, c), at' = [at EXCEPT ![t] = "user"], UNCHANGED <<share, fpwant, odd>>
    PROVE  /\ ctx' \in [Threads -> Context] /\ reg' \in Nat /\ belong' = t
           /\ \A u \in Threads : ctx'[u].of = c[u].of /\ ctx'[u].pc = c[u].pc
           /\ \A u \in Threads :
                  FpThere(u) => FpThere(u)'
<1>1. /\ \A u \in Threads : at[u] = "user" => u = t
      /\ at[t] = "head" /\ t # 0
      /\ belong # 0 => belong \in Threads
  BY DEF LoopInv, OneRuns, Family, AtHead, Polled, Threads
<1>2. CASE belong = t
  <2>1. ctx' = c /\ reg' = reg /\ belong' = belong /\ fs' = fs
    BY <1>2 DEF FpCtxKernelToUser
  <2>2. ASSUME NEW u \in Threads, FpThere(u)
        PROVE  FpThere(u)'
    BY <1>1, <1>2, <2>1, <2>2 DEF FpThere, LoopInv, LoopTypes
  <2> QED
    BY <1>2, <2>1, <2>2 DEF LoopInv, LoopTypes
<1>3. CASE belong # t
  <2>1. reg' = c[t].fp /\ belong' = t /\ fs' = "Clean"
    BY <1>3 DEF FpCtxKernelToUser, FpCtxSwitch, SyncToReg
  <2>2. ctx' = IF belong # 0 /\ c[belong].need
               THEN [c EXCEPT ![belong] = [[c[belong] EXCEPT !.fp = reg] EXCEPT !.need = FALSE]]
               ELSE c
    BY <1>3 DEF FpCtxKernelToUser, FpCtxSwitch, SyncFromReg
  <2>3. ctx' \in [Threads -> Context] /\ reg' \in Nat
    BY <1>1, <2>1, <2>2, ZenonT(30) DEF LoopInv, LoopTypes, Context
  <2>4. ASSUME NEW u \in Threads
        PROVE  /\ ctx'[u].of = c[u].of /\ ctx'[u].pc = c[u].pc
               /\ u = belong /\ ctx[u].need => ctx'[u].fp = reg
               /\ u # belong \/ ~ ctx[u].need => ctx'[u].fp = ctx[u].fp
    <3>1. u # 0
      BY DEF Threads
    <3>2. CASE u = belong /\ c[u].need
      BY <2>2, <3>1, <3>2 DEF Context
    <3>3. CASE u # belong \/ ~ c[u].need
      <4>1. ctx'[u] = c[u]
        BY <1>1, <2>2, <3>3
      <4> QED
        BY <3>3, <4>1
    <3> QED
      BY <3>2, <3>3
  <2>5. ASSUME NEW u \in Threads, FpThere(u)
        PROVE  FpThere(u)'
    <3>1. u # t => at[u] # "user"
      BY <1>1
    <3>2. fpwant[u] # Any => ctx'[u].fp = fpwant[u]
      BY <1>3, <2>4, <2>5, <3>1, <1>1 DEF FpThere, LoopInv, LoopTypes, Context
    <3>3. u = t /\ fpwant[u] # Any => reg' = fpwant[u]
      BY <1>3, <2>1, <2>5 DEF FpThere
    <3> QED
      BY <2>1, <3>2, <3>3 DEF FpThere
  <2> QED
    BY <2>1, <2>3, <2>4, <2>5
<1> QED
  BY <1>2, <1>3

LEMMA ResumeKeeps ==
    ASSUME LoopInv, NEW t \in Threads, Resume(t)
    PROVE  LoopInv'
<1>1. LoopTypes /\ Family /\ OneRuns /\ OneHandler /\ AtHead(t) /\ RunUser(t, ctx)
  BY DEF LoopInv, Resume
<1>2. /\ at' = [at EXCEPT ![t] = "user"] /\ cur' = t
      /\ FpCtxKernelToUser(t, ctx)
      /\ UNCHANGED <<share, died, main, fpwant, in, odd>>
  BY <1>1 DEF RunUser, Resume, kin
<1>3. Quiet(sig, sig')
  <2>1. share[t] \in Threads /\ sig \in [Threads -> SignalType]
    BY <1>1 DEF LoopTypes
  <2>2. sig[share[t]].pending \ Cleared(t) \subseteq Sigs
    BY <2>1 DEF SignalType
  <2> QED
    BY <2>1, <2>2, PendingQuiet, Zenon DEF Resume
<1>4. /\ ctx' \in [Threads -> Context] /\ reg' \in Nat /\ belong' = t
      /\ \A u \in Threads : ctx'[u].of = ctx[u].of /\ ctx'[u].pc = ctx[u].pc
      /\ \A u \in Threads : FpThere(u) => FpThere(u)'
  <2>1. ctx \in [Threads -> Context]
    BY <1>1 DEF LoopTypes
  <2> QED
    BY <1>1, <1>2, <2>1, SwitchRight, Zenon
<1>5. at[t] = "head" /\ \A u \in Threads : at[u] = "user" => u = t
  BY <1>1 DEF OneRuns, AtHead, Polled, Threads
<1>6. LoopTypes'
  BY <1>1, <1>2, <1>3, <1>4, Zenon DEF LoopTypes, Quiet, Places
<1>7. Family'
  BY <1>1, <1>2, <1>4, <1>5 DEF LoopTypes, Family
<1>8. OneRuns'
  BY <1>1, <1>2, <1>4, <1>5 DEF LoopTypes, OneRuns
<1>9. OneHandler'
  BY <1>1, <1>2, <1>3, ZenonT(30) DEF LoopTypes, OneHandler, Quiet
<1>10. ASSUME NEW u \in Threads
       PROVE  Right(u)'
  <2>1. Right(u) /\ share[u] \in Threads
    BY DEF LoopInv, LoopTypes
  <2>2. at'[u] \notin {"none", "gone"} => at[u] \notin {"none", "gone"}
    BY <1>1, <1>2, <1>5 DEF LoopTypes
  <2>3. Resumes(u) => Resumes(u)'
    BY <1>2, <1>3, <1>4, <2>1 DEF Resumes, Quiet
  <2>4. FpSaved(u) => FpSaved(u)'
    BY <1>2, <1>3, <2>1 DEF FpSaved, Quiet
  <2> QED
    BY <1>2, <1>4, <2>1, <2>2, <2>3, <2>4 DEF Right
<1>11. died' = "sigreturn" => odd' # {}
  BY <1>2 DEF LoopInv
<1> QED
  BY <1>6, <1>7, <1>8, <1>9, <1>10, <1>11 DEF LoopInv

\* A set of numbers that is not empty has a lowest one.
LeastNumber == \A D \in SUBSET Nat : D # {} => \E m \in D : \A d \in D : m <= d

\* No thread of the Signal is in a handler when one is entered, as
\* signal_processing is empty; so the one saved context is free.
LEMMA EnterHandlerKeeps ==
    ASSUME LoopInv, LeastNumber, NEW t \in Threads, EnterHandler(t)
    PROVE  LoopInv'
<1> DEFINE g == share[t]
           c == [ctx EXCEPT ![t].pc = 100 + First(t)]
<1>1. LoopTypes /\ Family /\ OneRuns /\ OneHandler /\ AtHead(t) /\ RunUser(t, c)
  BY DEF LoopInv, EnterHandler
<1>2. /\ at' = [at EXCEPT ![t] = "user"] /\ cur' = t
      /\ FpCtxKernelToUser(t, c)
      /\ UNCHANGED <<share, died, main, fpwant, odd>>
  BY <1>1 DEF RunUser, kin
<1>3. in' = [in EXCEPT ![t] = fpwant[t] + 1]
  BY DEF EnterHandler
<1>4. /\ g \in Threads /\ sig[g] \in SignalType /\ sig \in [Threads -> SignalType]
      /\ ctx[t] \in Context /\ fpwant[t] \in Nat
  BY <1>1 DEF LoopTypes
<1>5. Deliverable(t) # {}
  BY DEF EnterHandler, Handler
<1>6. sig[g].processing = {} /\ Deliverable(t) \subseteq Sigs
  BY <1>4, <1>5 DEF Deliverable, S, SignalType
<1>7. First(t) \in Sigs /\ First(t) \in Nat
  <2>1. \E m \in Deliverable(t) : \A d \in Deliverable(t) : m <= d
    BY <1>5, <1>6, LoopBounds, ZenonT(30) DEF LeastNumber
  <2>2. First(t) \in Deliverable(t)
    BY <2>1, Zenon DEF First
  <2> QED
    BY <1>6, <2>2, LoopBounds, ZenonT(30)
<1>8. /\ sig' \in [Threads -> SignalType]
      /\ sig'[g].processing = {First(t)} /\ sig'[g].saved = ctx[t]
      /\ \A h \in Threads : h # g => sig'[h] = sig[h]
  <2> DEFINE s1 == [sig EXCEPT ![g].pending = sig[g].pending \ Cleared(t)]
             s2 == [s1 EXCEPT ![g].saved = ctx[t]]
  <2>1. sig' = [s2 EXCEPT ![g].processing = s2[g].processing \cup {First(t)}]
    BY <1>4, Zenon DEF EnterHandler
  <2>2. /\ s1 \in [Threads -> SignalType] /\ s1[g].processing = {}
        /\ \A h \in Threads : h # g => s1[h] = sig[h]
    BY <1>4, <1>6 DEF SignalType
  <2> HIDE DEF s1
  <2>3. /\ s2 \in [Threads -> SignalType] /\ s2[g].processing = {} /\ s2[g].saved = ctx[t]
        /\ \A h \in Threads : h # g => s2[h] = sig[h]
    BY <1>4, <2>2, Zenon DEF SignalType
  <2> HIDE DEF s2
  <2> QED
    BY <1>4, <1>7, <2>1, <2>3, Zenon DEF SignalType
<1>9. c \in [Threads -> Context] /\ \A u \in Threads : c[u].fp = ctx[u].fp /\ c[u].need = ctx[u].need
  BY <1>1, <1>7 DEF LoopTypes, Context
<1>10. /\ ctx' \in [Threads -> Context] /\ reg' \in Nat /\ belong' = t
       /\ \A u \in Threads : ctx'[u].of = c[u].of /\ ctx'[u].pc = c[u].pc
       /\ \A u \in Threads : FpThere(u) => FpThere(u)'
  <2> HIDE DEF c
  <2> QED
    BY <1>1, <1>2, <1>9, SwitchRight, Zenon
<1>11. at[t] = "head" /\ \A u \in Threads : at[u] = "user" => u = t
  BY <1>1 DEF OneRuns, AtHead, Polled, Threads
<1>12. \A u \in Threads : share[u] = g /\ g \notin odd => in[u] = 0
  BY <1>1, <1>6 DEF OneHandler
<1>13. \A u \in Threads : u # t => in'[u] = in[u] /\ ctx'[u].of = ctx[u].of /\ ctx'[u].pc = ctx[u].pc
  BY <1>1, <1>3, <1>10 DEF LoopTypes
<1>14. in' \in [Threads -> Nat] /\ in'[t] = fpwant[t] + 1 /\ in'[t] # 0
  BY <1>1, <1>3, <1>4 DEF LoopTypes
<1>15. LoopTypes'
  BY <1>1, <1>2, <1>8, <1>10, <1>14, Zenon DEF LoopTypes, Places
<1>16. Family'
  BY <1>1, <1>2, <1>10, <1>11, <1>13 DEF LoopTypes, Family
<1>17. OneRuns'
  BY <1>1, <1>2, <1>10, <1>11 DEF LoopTypes, OneRuns
<1>18. OneHandler'
  <2>1. \A h \in Threads : \A a, b \in sig'[h].processing : a = b
    BY <1>1, <1>8 DEF OneHandler
  <2>2. \A u \in Threads : share'[u] \notin odd' /\ in'[u] # 0 => sig'[share'[u]].processing # {}
    BY <1>1, <1>2, <1>8, <1>13, Zenon DEF LoopTypes, OneHandler
  <2>3. \A u, v \in Threads :
            share'[u] \notin odd' /\ share'[u] = share'[v] /\ in'[u] # 0 /\ in'[v] # 0 => u = v
    BY <1>1, <1>2, <1>12, <1>13 DEF OneHandler
  <2> QED
    BY <2>1, <2>2, <2>3 DEF OneHandler
<1>19. ASSUME NEW u \in Threads
       PROVE  Right(u)'
  <2>1. Right(u) /\ share[u] \in Threads
    BY DEF LoopInv, LoopTypes
  <2>2. at'[u] \notin {"none", "gone"} => at[u] \notin {"none", "gone"}
    BY <1>1, <1>2, <1>11 DEF LoopTypes
  <2>3. CASE u # t /\ share[u] # g
    BY <1>2, <1>8, <1>10, <1>13, <2>1, <2>2, <2>3 DEF Right, Resumes, FpSaved
  <2>4. CASE u # t /\ share[u] = g
    BY <1>2, <1>10, <1>12, <1>13, <2>1, <2>2, <2>4 DEF Right, Resumes, FpSaved
  <2>5. CASE u = t
    <3>1. at[t] \notin {"none", "gone"} /\ at[t] # "user"
      BY <1>11
    <3> SUFFICES ASSUME g \notin odd
                 PROVE  Resumes(t)' /\ FpThere(t)' /\ FpSaved(t)'
      BY <1>2, <2>5 DEF Right
    <3>2. in[t] = 0 /\ Resumes(t) /\ FpThere(t)
      BY <1>12, <2>1, <2>5, <3>1 DEF Right
    <3>3. Resumes(t)'
      BY <1>2, <1>8, <1>14, <3>2 DEF Resumes
    <3>4. fpwant[t] # Any /\ ~ ctx[t].need => ctx[t].fp = fpwant[t]
      BY <3>1, <3>2 DEF FpThere
    <3>5. FpSaved(t)'
      BY <1>2, <1>4, <1>8, <1>14, <3>4 DEF FpSaved, Any
    <3> QED
      BY <1>10, <3>2, <3>3, <3>5
  <2> QED
    BY <2>3, <2>4, <2>5
<1>20. died' = "sigreturn" => odd' # {}
  BY <1>2 DEF LoopInv
<1> QED
  BY <1>15, <1>16, <1>17, <1>18, <1>19, <1>20 DEF LoopInv

-------------------------------------------------------------------------------
(* In user mode. *)

LEMMA WorkKeeps ==
    ASSUME LoopInv, NEW t \in Threads, Work(t)
    PROVE  LoopInv'
<1>1. LoopTypes /\ Family /\ OneRuns /\ OneHandler /\ in[t] = 0
  BY DEF LoopInv, Work
<1>2. /\ ctx' = [ctx EXCEPT ![t].pc = ctx[t].pc + 1]
      /\ main' = [main EXCEPT ![t] = main[t] + 1]
      /\ UNCHANGED <<cur, at, share, sig, reg, belong, fs, died, fpwant, in, odd>>
  BY DEF Work, kin, hart
<1>3. LoopTypes'
  BY <1>1, <1>2 DEF LoopTypes, Context
<1>4. Family' /\ OneRuns' /\ OneHandler'
  BY <1>1, <1>2 DEF Family, OneRuns, OneHandler
<1>5. ASSUME NEW u \in Threads
      PROVE  Right(u)'
  <2>1. Right(u)
    BY DEF LoopInv
  <2>2. /\ ctx'[u].of = ctx[u].of /\ ctx'[u].fp = ctx[u].fp /\ ctx'[u].need = ctx[u].need
        /\ ctx[u].pc = main[u] => ctx'[u].pc = main'[u]
        /\ u # t => main'[u] = main[u]
    BY <1>1, <1>2 DEF LoopTypes, Context
  <2>3. Resumes(u) => Resumes(u)'
    BY <1>1, <1>2, <2>2 DEF Resumes
  <2> QED
    BY <1>2, <2>1, <2>2, <2>3 DEF Right, FpThere, FpSaved
<1> QED
  BY <1>2, <1>3, <1>4, <1>5 DEF LoopInv

LEMMA WriteFpKeeps ==
    ASSUME LoopInv, NEW t \in Threads, NEW v \in FpVals, WriteFp(t, v)
    PROVE  LoopInv'
<1>1. LoopTypes /\ Family /\ OneRuns /\ OneHandler /\ InUser(t)
  BY DEF LoopInv, WriteFp
<1>2. /\ reg' = v /\ fs' = "Dirty" /\ fpwant' = [fpwant EXCEPT ![t] = v]
      /\ UNCHANGED <<cur, at, share, sig, ctx, belong, died, main, in, odd>>
  BY DEF WriteFp, kin
<1>3. LoopTypes'
  BY <1>1, <1>2, LoopBounds DEF LoopTypes
<1>4. Family' /\ OneRuns' /\ OneHandler'
  BY <1>1, <1>2 DEF Family, OneRuns, OneHandler
<1>5. belong = t /\ at[t] = "user"
  BY <1>1 DEF OneRuns, InUser
<1>6. ASSUME NEW u \in Threads
      PROVE  Right(u)'
  <2>1. Right(u)
    BY DEF LoopInv
  <2>2. Resumes(u) => Resumes(u)'
    BY <1>2 DEF Resumes
  <2>3. FpThere(u) => FpThere(u)'
    BY <1>1, <1>2, <1>5 DEF FpThere, LoopTypes
  <2> QED
    BY <1>2, <2>1, <2>2, <2>3 DEF Right, FpSaved
<1> QED
  BY <1>2, <1>3, <1>4, <1>6 DEF LoopInv

\* do_exec in a handler makes the Signal odd; outside one the Signal has nothing
\* saved for the thread.
LEMMA ExecKeeps ==
    ASSUME LoopInv, NEW t \in Threads, Exec(t)
    PROVE  LoopInv'
<1>1. LoopTypes /\ Family /\ OneRuns /\ OneHandler /\ InUser(t)
  BY DEF LoopInv, Exec, Call
<1>2. /\ at' = [at EXCEPT ![t] = "head"]
      /\ ctx' = [ctx EXCEPT ![t] = [ctx[t] EXCEPT !.pc = 0, !.need = TRUE]]
      /\ main' = [main EXCEPT ![t] = 0]
      /\ in' = [in EXCEPT ![t] = 0]
      /\ fpwant' = [fpwant EXCEPT ![t] = Any]
      /\ odd' = IF in[t] = 0 THEN odd ELSE odd \cup {share[t]}
      /\ UNCHANGED <<cur, share, sig, reg, belong, fs, died>>
  BY DEF Exec, Call, InitUser, kin, hart
<1>3. LoopTypes'
  BY <1>1, <1>2, Zenon DEF LoopTypes, Context, Places, Any
<1>4. /\ at[t] = "user" /\ belong = t
      /\ \A u \in Threads : u # t => at'[u] = at[u] /\ ctx'[u] = ctx[u] /\ main'[u] = main[u]
                                     /\ in'[u] = in[u] /\ fpwant'[u] = fpwant[u]
      /\ at'[t] = "head" /\ in'[t] = 0 /\ main'[t] = 0 /\ fpwant'[t] = Any
      /\ ctx'[t].pc = 0 /\ ctx'[t].of = ctx[t].of
      /\ \A g \in Threads : g \notin odd' => g \notin odd
  BY <1>1, <1>2 DEF LoopTypes, Context, OneRuns, InUser
<1>5. Family'
  BY <1>1, <1>2, <1>4 DEF Family
<1>6. OneRuns'
  BY <1>1, <1>2, <1>4 DEF OneRuns
<1>7. OneHandler'
  BY <1>1, <1>2, <1>4 DEF LoopTypes, OneHandler
<1>8. ASSUME NEW u \in Threads
      PROVE  Right(u)'
  <2>1. Right(u) /\ share[u] \in Threads
    BY DEF LoopInv, LoopTypes
  <2>2. CASE u # t
    BY <1>2, <1>4, <2>1, <2>2 DEF Right, Resumes, FpThere, FpSaved
  <2>3. CASE u = t
    BY <1>2, <1>4, <2>1, <2>3 DEF Right, Resumes, FpThere, FpSaved
  <2> QED
    BY <2>2, <2>3
<1>9. died' = "sigreturn" => odd' # {}
  BY <1>2 DEF LoopInv
<1> QED
  BY <1>3, <1>5, <1>6, <1>7, <1>8, <1>9 DEF LoopInv

\* The whole context comes back: the registers of the thread are still its own,
\* and fp_ctx is right where it is not marked.
LEMMA SigreturnKeeps ==
    ASSUME LoopInv, NEW t \in Threads, Sigreturn(t)
    PROVE  LoopInv'
<1> DEFINE g == share[t]
<1>1. LoopTypes /\ Family /\ OneRuns /\ OneHandler /\ InUser(t) /\ in[t] # 0
  BY DEF LoopInv, Sigreturn, Call
<1>2. /\ at' = [at EXCEPT ![t] = "head"]
      /\ ctx' = [Trapped(t) EXCEPT ![t] = sig[g].saved]
      /\ sig' = [sig EXCEPT ![g].processing =
                     sig[g].processing \ {s \in sig[g].processing : \A r \in sig[g].processing : s <= r}]
      /\ died' = IF sig[g].processing = {} THEN "sigreturn" ELSE "no"
      /\ in' = [in EXCEPT ![t] = 0]
      /\ fpwant' = [fpwant EXCEPT ![t] = IF fpwant[t] + 1 = in[t] THEN fpwant[t] ELSE Any]
      /\ UNCHANGED <<cur, share, reg, belong, fs, main, odd>>
  BY DEF Sigreturn, Call, kin, hart
<1>3. g \in Threads /\ sig[g] \in SignalType
  BY <1>1 DEF LoopTypes
<1>4. /\ sig' \in [Threads -> SignalType]
      /\ sig'[g].processing \subseteq sig[g].processing
      /\ \A h \in Threads : sig'[h].saved = sig[h].saved /\ (h # g => sig'[h] = sig[h])
  BY <1>1, <1>2, <1>3, Zenon DEF LoopTypes, SignalType
<1>5. ctx' \in [Threads -> Context] /\ ctx'[t] = sig[g].saved
      /\ \A u \in Threads : u # t => ctx'[u] = ctx[u]
  BY <1>1, <1>2, <1>3 DEF LoopTypes, SignalType, Trapped, Context
<1>6. /\ at[t] = "user" /\ belong = t /\ at'[t] = "head" /\ in'[t] = 0
      /\ fpwant'[t] \in Nat
      /\ fpwant'[t] # Any => fpwant'[t] = fpwant[t] /\ fpwant[t] + 1 = in[t]
      /\ \A u \in Threads : u # t => at'[u] = at[u] /\ in'[u] = in[u] /\ fpwant'[u] = fpwant[u]
  BY <1>1, <1>2 DEF LoopTypes, OneRuns, InUser, Any
<1>7. LoopTypes'
  BY <1>1, <1>2, <1>4, <1>5 DEF LoopTypes, Places, Any
<1>8. Family'
  BY <1>1, <1>2, <1>6 DEF Family
<1>9. OneRuns'
  BY <1>1, <1>2, <1>6 DEF OneRuns
<1>10. \A u \in Threads : u # t /\ share[u] = g /\ g \notin odd => in[u] = 0
  BY <1>1 DEF OneHandler
<1>11. OneHandler'
  <2>1. \A h \in Threads : \A a, b \in sig'[h].processing : a = b
    BY <1>1, <1>3, <1>4 DEF OneHandler
  <2>2. \A u \in Threads : share'[u] \notin odd' /\ in'[u] # 0 => sig'[share'[u]].processing # {}
    BY <1>1, <1>2, <1>4, <1>6, <1>10 DEF LoopTypes, OneHandler
  <2>3. \A u, v \in Threads :
            share'[u] \notin odd' /\ share'[u] = share'[v] /\ in'[u] # 0 /\ in'[v] # 0 => u = v
    BY <1>1, <1>2, <1>6 DEF OneHandler
  <2> QED
    BY <2>1, <2>2, <2>3 DEF OneHandler
<1>12. ASSUME NEW u \in Threads
       PROVE  Right(u)'
  <2>1. Right(u) /\ share[u] \in Threads
    BY DEF LoopInv, LoopTypes
  <2>2. CASE u # t
    BY <1>2, <1>4, <1>5, <1>6, <2>1, <2>2 DEF Right, Resumes, FpThere, FpSaved
  <2>3. CASE u = t
    <3> SUFFICES ASSUME g \notin odd
                 PROVE  Resumes(t)' /\ FpThere(t)' /\ FpSaved(t)'
      BY <1>2, <2>3 DEF Right
    <3>1. Resumes(t) /\ FpThere(t) /\ FpSaved(t)
      BY <1>6, <2>1, <2>3 DEF Right
    <3>2. Resumes(t)'
      BY <1>1, <1>2, <1>5, <1>6, <3>1 DEF Resumes
    <3>3. fpwant'[t] # Any /\ ~ sig[g].saved.need => sig[g].saved.fp = fpwant'[t]
      <4>1. sig[g].saved.fp \in Nat /\ fpwant[t] \in Nat /\ in[t] \in Nat
        BY <1>1, <1>3 DEF LoopTypes, SignalType, Context
      <4> QED
        BY <1>6, <3>1, <4>1 DEF FpSaved, Any
    <3>4. FpThere(t)'
      BY <1>2, <1>5, <1>6, <3>1, <3>3 DEF FpThere
    <3>5. FpSaved(t)'
      BY <1>6 DEF FpSaved
    <3> QED
      BY <3>2, <3>4, <3>5
  <2> QED
    BY <2>2, <2>3
<1>13. died' = "sigreturn" => odd' # {}
  BY <1>1, <1>2 DEF OneHandler
<1> QED
  BY <1>7, <1>8, <1>9, <1>11, <1>12, <1>13 DEF LoopInv

\* A child has a Signal of its own or that of its parent. Outside handlers its
\* context, copied from memory, has the value of the registers unless marked.
LEMMA CloneKeeps ==
    ASSUME LoopInv, NEW t \in Threads, NEW how \in {"thread", "fork", "clear"}, Clone(t, how)
    PROVE  LoopInv'
<1>1. LoopTypes /\ Family /\ OneRuns /\ OneHandler /\ InUser(t)
  BY DEF LoopInv, Clone
<1>2. PICK c \in Threads :
        /\ at[c] = "none"
        /\ at' = [at EXCEPT ![t] = "head", ![c] = "head"]
        /\ share' = [share EXCEPT ![c] = IF how = "thread" THEN share[t] ELSE c]
        /\ sig' = IF how = "fork" THEN [sig EXCEPT ![c] = [S(t) EXCEPT !.saved = Uninit]] ELSE sig
        /\ ctx' = [Trapped(t) EXCEPT ![c] = [Trapped(t)[t] EXCEPT !.of = c]]
        /\ main' = [main EXCEPT ![c] = main[t]]
        /\ in' = [in EXCEPT ![c] = in[t]]
        /\ fpwant' = [fpwant EXCEPT ![c] = IF Trapped(t)[t].need THEN Any ELSE fpwant[t]]
        /\ odd' = IF in[t] = 0 /\ share[t] \notin odd THEN odd ELSE odd \cup {share'[c]}
        /\ UNCHANGED <<cur, reg, belong, fs, died>>
  BY Zenon DEF Clone, hart
<1>3. at[t] = "user" /\ belong = t /\ t # c
  BY <1>1, <1>2 DEF OneRuns, InUser
<1>4. \A u \in Threads : u # c => share[u] # c
  BY <1>1, <1>2 DEF Family, LoopTypes
<1>5. /\ Trapped(t) \in [Threads -> Context]
      /\ \A u \in Threads : u # t => Trapped(t)[u] = ctx[u]
      /\ Trapped(t)[t].of = ctx[t].of /\ Trapped(t)[t].pc = ctx[t].pc /\ Trapped(t)[t].fp = ctx[t].fp
      /\ ~ Trapped(t)[t].need => ~ ctx[t].need /\ fs = "Clean"
  BY <1>1, Zenon DEF LoopTypes, Context, Trapped
<1>6. /\ ctx' \in [Threads -> Context]
      /\ ctx'[c].of = c /\ ctx'[c].pc = ctx[t].pc /\ ctx'[c].fp = ctx[t].fp
      /\ \A u \in Threads : u # c => ctx'[u] = Trapped(t)[u]
  <2> HIDE DEF Trapped
  <2> QED
    BY <1>2, <1>5 DEF Context, Threads
<1>7. /\ sig' \in [Threads -> SignalType]
      /\ sig'[c].processing \in {sig[c].processing, sig[share[t]].processing}
      /\ \A h \in Threads : h # c => sig'[h] = sig[h]
  <2>1. Uninit \in Context
    BY DEF Uninit, Context, Any
  <2>2. S(t) \in SignalType
    BY <1>1 DEF S, LoopTypes
  <2> QED
    BY <1>1, <1>2, <2>1, <2>2, Zenon DEF LoopTypes, SignalType, S
<1>8. /\ at'[c] = "head" /\ at'[t] = "head"
      /\ \A u \in Threads : u \notin {t, c} => at'[u] = at[u]
      /\ share'[c] \in {c, share[t]} /\ in'[c] = in[t] /\ main'[c] = main[t]
      /\ fpwant'[c] # Any => ~ Trapped(t)[t].need /\ fpwant'[c] = fpwant[t]
      /\ \A u \in Threads : u # c => share'[u] = share[u] /\ in'[u] = in[u]
                                     /\ main'[u] = main[u] /\ fpwant'[u] = fpwant[u]
  BY <1>1, <1>2 DEF LoopTypes
<1>9. /\ \A g \in Threads : g \notin odd' => g \notin odd
      /\ share'[c] \notin odd' => in[t] = 0 /\ share[t] \notin odd
  BY <1>2
<1>10. LoopTypes'
  <2>1. at' \in [Threads -> Places] /\ share' \in [Threads -> Threads]
    BY <1>1, <1>2 DEF LoopTypes, Places
  <2>2. main' \in [Threads -> Nat] /\ fpwant' \in [Threads -> Nat] /\ in' \in [Threads -> Nat]
    BY <1>1, <1>2 DEF LoopTypes, Any
  <2> QED
    BY <1>1, <1>2, <1>6, <1>7, <2>1, <2>2 DEF LoopTypes
<1>11. Family'
  <2>1. \A u \in Threads : at'[u] # "none" => at'[share'[u]] # "none"
    BY <1>1, <1>3, <1>4, <1>8 DEF Family, LoopTypes
  <2>2. \A u \in Threads : at'[u] = "none" => share'[u] = u /\ in'[u] = 0
    BY <1>1, <1>8 DEF Family
  <2>3. belong' # 0 => belong' \in Threads /\ at'[belong'] # "none"
    BY <1>2, <1>3, <1>8
  <2> QED
    BY <2>1, <2>2, <2>3 DEF Family
<1>12. OneRuns'
  BY <1>1, <1>2, <1>8 DEF OneRuns
<1>13. OneHandler'
  <2>1. \A h \in Threads : \A a, b \in sig'[h].processing : a = b
    BY <1>1, <1>7 DEF OneHandler, LoopTypes
  <2>2. \A u \in Threads : share'[u] \notin odd' /\ in'[u] # 0 =>
            u # c /\ share'[u] = share[u] /\ share[u] \notin odd /\ in[u] # 0
    BY <1>1, <1>8, <1>9 DEF LoopTypes
  <2>3. \A u \in Threads : share'[u] \notin odd' /\ in'[u] # 0 => sig'[share'[u]].processing # {}
    BY <1>1, <1>4, <1>7, <2>2 DEF OneHandler, LoopTypes
  <2>4. \A u, v \in Threads :
            share'[u] \notin odd' /\ share'[u] = share'[v] /\ in'[u] # 0 /\ in'[v] # 0 => u = v
    BY <1>1, <2>2 DEF OneHandler
  <2> QED
    BY <2>1, <2>3, <2>4 DEF OneHandler
<1>14. ASSUME NEW u \in Threads
       PROVE  Right(u)'
  <2>1. Right(u) /\ Right(t) /\ share[u] \in Threads /\ share[t] \in Threads
    BY DEF LoopInv, LoopTypes
  <2>2. CASE u = c
    <3> SUFFICES ASSUME share'[c] \notin odd'
                 PROVE  Resumes(c)' /\ FpThere(c)' /\ FpSaved(c)'
      BY <2>2 DEF Right
    <3>1. in[t] = 0 /\ Resumes(t) /\ FpThere(t)
      BY <1>3, <1>9, <2>1 DEF Right
    <3>2. in'[c] = 0
      BY <1>8, <3>1
    <3>3. Resumes(c)'
      BY <1>6, <1>8, <3>1, <3>2 DEF Resumes
    <3>4. FpThere(c)'
      BY <1>2, <1>3, <1>5, <1>6, <1>8, <3>1 DEF FpThere
    <3> QED
      BY <3>2, <3>3, <3>4 DEF FpSaved
  <2>3. CASE u # c
    <3>1. /\ ctx'[u].of = ctx[u].of /\ ctx'[u].pc = ctx[u].pc /\ ctx'[u].fp = ctx[u].fp
          /\ ~ ctx'[u].need => ~ ctx[u].need
          /\ u = t /\ ~ ctx'[u].need => fs = "Clean"
      BY <1>5, <1>6, <2>3
    <3>2. /\ share'[u] = share[u] /\ sig'[share[u]] = sig[share[u]]
          /\ in'[u] = in[u] /\ main'[u] = main[u] /\ fpwant'[u] = fpwant[u]
      BY <1>4, <1>7, <1>8, <2>1, <2>3
    <3>3. /\ at'[u] \notin {"none", "gone"} => at[u] \notin {"none", "gone"}
          /\ u # t => at'[u] = at[u]
      BY <1>3, <1>8, <2>3
    <3>4. Resumes(u) => Resumes(u)'
      BY <3>1, <3>2 DEF Resumes
    <3>5. FpThere(u) => FpThere(u)'
      BY <1>2, <1>3, <3>1, <3>2, <3>3 DEF FpThere
    <3>6. FpSaved(u) => FpSaved(u)'
      BY <3>2 DEF FpSaved
    <3> QED
      BY <1>9, <2>1, <3>2, <3>3, <3>4, <3>5, <3>6 DEF Right
  <2> QED
    BY <2>2, <2>3
<1>15. died' = "sigreturn" => odd' # {}
  BY <1>2 DEF LoopInv
<1> QED
  BY <1>10, <1>11, <1>12, <1>13, <1>14, <1>15 DEF LoopInv

-------------------------------------------------------------------------------
(* The other calls, traps and tasks have one of the two shapes. *)

LEMMA CallTraps ==
    ASSUME NEW t \in Threads, Call(t), ctx' = Trapped(t), Quiet(sig, sig'),
           UNCHANGED <<kin, died, main, fpwant, in, odd>>
    PROVE  Traps(t, "head")
  BY DEF Call, Traps, kin, hart

LEMMA FaultKeeps ==
    ASSUME LoopInv, NEW t \in Threads, Fault(t)
    PROVE  LoopInv'
<1>1. Quiet(sig, sig')
  BY QuietSame DEF Fault, LoopInv, LoopTypes
<1>2. Traps(t, "head")
  BY <1>1, CallTraps DEF Fault
<1> QED
  BY <1>2, TrapsKeeps

LEMMA PendsKeeps ==
    ASSUME LoopInv, NEW t \in Threads, NEW w \in {"sleep", "sigwait"}, Pends(t, w)
    PROVE  LoopInv'
<1>1. Quiet(sig, sig')
  BY QuietSame DEF Pends, LoopInv, LoopTypes
<1>2. Traps(t, w)
  BY <1>1 DEF Pends, Traps, kin, hart
<1> QED
  BY <1>2, TrapsKeeps

LEMMA YieldKeeps ==
    ASSUME LoopInv, NEW t \in Threads, SchedYield(t) \/ TimerIrq(t)
    PROVE  LoopInv'
<1>1. Quiet(sig, sig')
  BY QuietSame DEF SchedYield, TimerIrq, LoopInv, LoopTypes
<1>2. Traps(t, "head")
  BY <1>1 DEF SchedYield, TimerIrq, YieldNow, Traps, kin, hart
<1> QED
  BY <1>2, TrapsKeeps

LEMMA LeaveLoopKeeps ==
    ASSUME LoopInv, NEW t \in Threads, LeaveLoop(t)
    PROVE  LoopInv'
<1>1. Quiet(sig, sig)
  BY QuietSame DEF LoopInv, LoopTypes
<1>2. Quiet(sig, sig')
  BY <1>1, ExitQuiet DEF LeaveLoop
<1>3. Traps(t, "gone")
  BY <1>2 DEF LeaveLoop, DoExit, Traps, hart
<1> QED
  BY <1>3, TrapsKeeps

LEMMA SigactionKeeps ==
    ASSUME LoopInv, NEW t \in Threads, NEW s \in Sigs, NEW h \in {"ign", "dfl", "fn"}, Sigaction(t, s, h)
    PROVE  LoopInv'
<1>1. sig \in [Threads -> SignalType] /\ share[t] \in Threads
  BY DEF LoopInv, LoopTypes
<1>2. Quiet(sig, sig')
  BY <1>1, HandlerQuiet, Zenon DEF Sigaction
<1>3. Traps(t, "head")
  BY <1>2, CallTraps, Zenon DEF Sigaction
<1> QED
  BY <1>3, TrapsKeeps

\* send_signal adds to what is pending.
LEMMA SendQuiet ==
    ASSUME LoopInv, NEW u, NEW s \in Sigs, SendSignal(u, s)
    PROVE  Quiet(sig, sig')
<1> DEFINE P == sig[share[u]].pending \cup {s}
<1>1. sig \in [Threads -> SignalType]
  BY DEF LoopInv, LoopTypes
<1>2. share[u] \in Threads => P \subseteq Sigs
  BY <1>1 DEF SignalType
<1>3. sig' = [sig EXCEPT ![share[u]].pending = P]
  BY DEF SendSignal
<1> HIDE DEF P
<1> QED
  BY <1>1, <1>2, <1>3, PendingQuiet, Zenon

LEMMA KillKeeps ==
    ASSUME LoopInv, NEW t \in Threads, NEW u \in Threads, NEW s \in Sigs, Kill(t, u, s)
    PROVE  LoopInv'
<1>1. Quiet(sig, sig')
  BY SendQuiet DEF Kill
<1>2. Traps(t, "head")
  BY <1>1, CallTraps DEF Kill
<1> QED
  BY <1>2, TrapsKeeps

LEMMA KillGroupKeeps ==
    ASSUME LoopInv, NEW t \in Threads, NEW s \in Sigs, KillGroup(t, s)
    PROVE  LoopInv'
<1> DEFINE to == {share[u] : u \in Children(t) \cup {t}}
<1>1. sig \in [Threads -> SignalType]
  BY DEF LoopInv, LoopTypes
<1>2. sig' = [g \in Threads |->
                  IF g \in to THEN [sig[g] EXCEPT !.pending = sig[g].pending \cup {s}] ELSE sig[g]]
  BY DEF KillGroup
<1>3. Quiet(sig, sig')
  <2> HIDE DEF to
  <2> QED
    BY <1>1, <1>2 DEF Quiet, SignalType
<1>4. Traps(t, "head")
  BY <1>3, CallTraps DEF KillGroup
<1> QED
  BY <1>4, TrapsKeeps

LEMMA TimerCallsKeep ==
    ASSUME LoopInv, NEW t \in Threads,
           DisarmTimers(t) \/ \E kind \in {"once", "period"}, ms \in Delays : SetTimer(t, kind, ms)
    PROVE  LoopInv'
<1>1. Quiet(sig, sig')
  BY QuietSame DEF DisarmTimers, SetTimer, LoopInv, LoopTypes
<1>2. Traps(t, "head")
  BY <1>1, CallTraps DEF DisarmTimers, SetTimer
<1> QED
  BY <1>2, TrapsKeeps

LEMMA CallEndsKeeps ==
    ASSUME LoopInv, NEW t \in Threads, CallEnds(t)
    PROVE  LoopInv'
<1>1. LoopTypes /\ OneRuns
  BY DEF LoopInv
<1>2. Quiet(sig, sig')
  BY <1>1, QuietSame DEF CallEnds, LoopTypes
<1>3. cur = 0 /\ \A u \in Threads : at[u] # "user"
  BY <1>1 DEF OneRuns, CallEnds, Threads
<1>4. Rests
  BY <1>1, <1>2, <1>3 DEF CallEnds, Rests, LoopTypes, Places, kin, hart
<1> QED
  BY <1>4, RestsKeeps

LEMMA DefaultEndsKeeps ==
    ASSUME LoopInv, NEW t \in Threads, DefaultEnds(t)
    PROVE  LoopInv'
<1> DEFINE s == [sig EXCEPT ![share[t]].pending = sig[share[t]].pending \ Cleared(t)]
<1>1. LoopTypes /\ OneRuns
  BY DEF LoopInv
<1>2. Quiet(sig, s)
  <2>1. sig \in [Threads -> SignalType] /\ share[t] \in Threads
    BY <1>1, ZenonT(30) DEF LoopTypes
  <2>2. sig[share[t]].pending \ Cleared(t) \subseteq Sigs
    BY <2>1 DEF SignalType
  <2> QED
    BY <2>1, <2>2, PendingQuiet, Zenon
<1>3. DoExit(t, s)
  BY DEF DefaultEnds
<1>4. Quiet(sig, sig')
  <2> HIDE DEF s
  <2> QED
    BY <1>2, <1>3, ExitQuiet
<1>5. at[t] = "head" /\ \A u \in Threads : at[u] # "user"
  BY <1>1 DEF OneRuns, DefaultEnds, AtHead, Polled, Threads
<1>6. Rests
  BY <1>1, <1>3, <1>4, <1>5 DEF DefaultEnds, DoExit, Rests, LoopTypes, Places, hart
<1> QED
  BY <1>6, RestsKeeps

\* The tasks of the timers, and the timer interrupt in the executor.
LEMMA TasksKeep ==
    ASSUME LoopInv, KernelIrq \/ \E k \in Timers : TimerFires(k) \/ PeriodFires(k)
    PROVE  LoopInv'
<1>1. sig \in [Threads -> SignalType] /\ at \in [Threads -> Places] /\ Alrm \in Sigs
  BY LoopBounds DEF LoopInv, LoopTypes
<1>2. CASE KernelIrq
  <2>1. Quiet(sig, sig')
    BY <1>1, <1>2, QuietSame DEF KernelIrq
  <2>2. Rests
    BY <1>1, <1>2, <2>1 DEF KernelIrq, Rests, kin, hart
  <2> QED
    BY <2>2, RestsKeeps
<1>3. ASSUME NEW k \in Timers, TimerFires(k)
      PROVE  LoopInv'
  <2>1. Quiet(sig, sig')
    BY <1>1, <1>3, QuietSame, SendQuiet DEF TimerFires
  <2>2. Rests
    BY <1>1, <1>3, <2>1 DEF TimerFires, Rests, kin, hart
  <2> QED
    BY <2>2, RestsKeeps
<1>4. ASSUME NEW k \in Timers, PeriodFires(k)
      PROVE  LoopInv'
  <2>1. Quiet(sig, sig')
    BY <1>1, <1>4, QuietSame DEF PeriodFires
  <2>2. Rests
    BY <1>1, <1>4, <2>1 DEF PeriodFires, Rests, kin, hart
  <2> QED
    BY <2>2, RestsKeeps
<1> QED
  BY <1>2, <1>3, <1>4

-------------------------------------------------------------------------------
(* The invariant. *)

LEMMA LoopInit ==
    ASSUME Init
    PROVE  LoopInv
<1>1. NewSignal \in SignalType /\ Uninit \in Context
  BY DEF NewSignal, SignalType, Uninit, Context, Any
<1>2. PICK h \in {"none", "fn"} :
        sig = [t \in Threads |-> IF t = 1 THEN [NewSignal EXCEPT !.handler = [s \in Sigs |-> h]]
                                 ELSE NewSignal]
  BY DEF Init
<1>3. sig \in [Threads -> SignalType] /\ \A g \in Threads : sig[g].processing = {}
  BY <1>1, <1>2 DEF SignalType, NewSignal
<1>4. ctx \in [Threads -> Context] /\ \A t \in Threads : ctx[t].of = t /\ ctx[t].pc = 0
  <2>1. ASSUME NEW t \in Threads
        PROVE  ctx[t] = [of |-> t, pc |-> 0, fp |-> Any, need |-> TRUE]
    BY Zenon DEF Init, InitUser, Uninit
  <2>2. ctx = [t \in Threads |-> ctx[t]]
    BY DEF Init
  <2>3. ASSUME NEW t \in Threads
        PROVE  ctx[t] \in Context /\ ctx[t].of = t /\ ctx[t].pc = 0
    <3>1. t \in Nat
      BY LoopBounds DEF Threads
    <3>2. [of |-> t, pc |-> 0, fp |-> Any, need |-> TRUE] \in Context
      BY <3>1 DEF Context, Any
    <3> QED
      BY <2>1, <3>2
  <2> QED
    BY <2>2, <2>3, Zenon
<1>5. LoopTypes
  BY <1>3, <1>4 DEF Init, LoopTypes, Places, Any
<1>6. Family
  BY DEF Init, Family
<1>7. OneRuns
  BY DEF Init, OneRuns
<1>8. OneHandler
  BY <1>3 DEF Init, OneHandler
<1>9. ASSUME NEW t \in Threads
      PROVE  Right(t)
  BY <1>4 DEF Init, Right, Resumes, FpThere, FpSaved
<1> QED
  BY <1>5, <1>6, <1>7, <1>8, <1>9 DEF Init, LoopInv

LEMMA LoopStutter ==
    ASSUME LoopInv, UNCHANGED vars
    PROVE  LoopInv'
<1>1. Quiet(sig, sig')
  BY QuietSame DEF vars, LoopInv, LoopTypes
<1>2. Rests
  BY <1>1 DEF vars, Rests, LoopInv, LoopTypes
<1> QED
  BY <1>2, RestsKeeps

\* One case for each operation.
LEMMA LoopStep ==
    ASSUME LoopInv, LeastNumber, Next
    PROVE  LoopInv'
<1>1. ASSUME NEW t \in Threads, Resume(t)
      PROVE  LoopInv'
  BY <1>1, ResumeKeeps
<1>2. ASSUME NEW t \in Threads, EnterHandler(t)
      PROVE  LoopInv'
  BY <1>2, EnterHandlerKeeps
<1>3. ASSUME NEW t \in Threads, DefaultEnds(t)
      PROVE  LoopInv'
  BY <1>3, DefaultEndsKeeps
<1>4. ASSUME NEW t \in Threads, CallEnds(t)
      PROVE  LoopInv'
  BY <1>4, CallEndsKeeps
<1>5. ASSUME NEW t \in Threads, Fault(t)
      PROVE  LoopInv'
  BY <1>5, FaultKeeps
<1>6. ASSUME NEW t \in Threads, SchedYield(t) \/ TimerIrq(t)
      PROVE  LoopInv'
  BY <1>6, YieldKeeps
<1>7. ASSUME NEW t \in Threads, NEW ms \in Delays, Nanosleep(t, ms)
      PROVE  LoopInv'
  BY <1>7, PendsKeeps DEF Nanosleep, WakeAfter
<1>8. ASSUME NEW t \in Threads, NEW abs \in 1 .. MaxNow, ClockNanosleep(t, abs)
      PROVE  LoopInv'
  BY <1>8, PendsKeeps, FaultKeeps DEF ClockNanosleep, WakeAfter
<1>9. ASSUME NEW t \in Threads, Work(t)
      PROVE  LoopInv'
  BY <1>9, WorkKeeps
<1>10. ASSUME NEW t \in Threads, Sigreturn(t)
       PROVE  LoopInv'
  BY <1>10, SigreturnKeeps
<1>11. ASSUME NEW t \in Threads, Exec(t)
       PROVE  LoopInv'
  BY <1>11, ExecKeeps
<1>12. ASSUME NEW t \in Threads, Exit(t) \/ Killed(t)
       PROVE  LoopInv'
  BY <1>12, LeaveLoopKeeps DEF Exit, Killed
<1>13. ASSUME NEW t \in Threads,
              DisarmTimers(t) \/ \E kind \in {"once", "period"}, ms \in Delays : SetTimer(t, kind, ms)
       PROVE  LoopInv'
  BY <1>13, TimerCallsKeep
<1>14. ASSUME NEW t \in Threads, NEW v \in FpVals, WriteFp(t, v)
       PROVE  LoopInv'
  BY <1>14, WriteFpKeeps
<1>15. ASSUME NEW t \in Threads, NEW s \in Sigs, Sigwait(t, s)
       PROVE  LoopInv'
  BY <1>15, PendsKeeps, FaultKeeps DEF Sigwait
<1>16. ASSUME NEW t \in Threads, NEW s \in Sigs, KillGroup(t, s)
       PROVE  LoopInv'
  BY <1>16, KillGroupKeeps
<1>17. ASSUME NEW t \in Threads, NEW s \in Sigs, NEW h \in {"ign", "dfl", "fn"}, Sigaction(t, s, h)
       PROVE  LoopInv'
  BY <1>17, SigactionKeeps
<1>18. ASSUME NEW t \in Threads, NEW s \in Sigs, NEW u \in Threads, Kill(t, u, s)
       PROVE  LoopInv'
  BY <1>18, KillKeeps
<1>19. ASSUME NEW t \in Threads, NEW how \in {"thread", "fork", "clear"}, Clone(t, how)
       PROVE  LoopInv'
  BY <1>19, CloneKeeps
<1>20. ASSUME KernelIrq \/ \E k \in Timers : TimerFires(k) \/ PeriodFires(k)
       PROVE  LoopInv'
  BY <1>20, TasksKeep
<1> QED
  BY <1>1, <1>2, <1>3, <1>4, <1>5, <1>6, <1>7, <1>8, <1>9, <1>10, <1>11, <1>12, <1>13,
     <1>14, <1>15, <1>16, <1>17, <1>18, <1>19, <1>20 DEF Next

-------------------------------------------------------------------------------
(* Timers. *)

\* What is due has come once a timer is woken, and the flag is looked at last.
TimerInv ==
    /\ now \in Nat
    /\ timer \in [Timers -> [st : {"free", "once", "period", "woken", "periodwoken", "sent", "silent"},
                             own : Nat, due : Nat, off : BOOLEAN]]
    /\ \A k \in Timers : timer[k].st \in {"woken", "sent"} => timer[k].due <= now
    /\ \A k \in Timers : timer[k].st = "sent" => ~ timer[k].off

LEMMA TimerInit ==
    ASSUME Init
    PROVE  TimerInv
  BY DEF Init, TimerInv

\* at_tick and SleepQueue::wake_ready.
LEMMA TickKeeps ==
    ASSUME TimerInv, TimerHandler
    PROVE  TimerInv'
<1>1. now' \in Nat /\ now <= now'
  BY LoopBounds DEF TimerInv, TimerHandler
<1>2. timer' = [k \in Timers |->
          IF timer[k].st \in {"once", "period"} /\ timer[k].due <= now'
          THEN [timer[k] EXCEPT !.st = IF timer[k].st = "once" THEN "woken" ELSE "periodwoken"]
          ELSE timer[k]]
  BY DEF TimerHandler, WakeReady
<1> QED
  BY <1>1, <1>2 DEF TimerInv

LEMMA SetTimerKeeps ==
    ASSUME TimerInv, NEW t \in Threads, NEW kind \in {"once", "period"}, NEW ms \in Delays,
           SetTimer(t, kind, ms)
    PROVE  TimerInv'
<1>1. PICK k \in Timers :
          timer' = [timer EXCEPT ![k] = [st |-> kind, own |-> t, due |-> now + ms, off |-> FALSE]]
  BY Zenon DEF SetTimer, CallAfter
<1>2. now' = now
  BY DEF SetTimer, Call
<1>3. now + ms \in Nat /\ t \in Nat
  BY LoopBounds DEF TimerInv, Threads
<1> QED
  BY <1>1, <1>2, <1>3 DEF TimerInv

\* A timer whose SIGALRM is sent is not disarmed any more: it has left the map.
LEMMA DisarmKeeps ==
    ASSUME TimerInv, NEW t \in Threads, DisarmTimers(t)
    PROVE  TimerInv'
  BY Zenon DEF TimerInv, DisarmTimers, Call

LEMMA FiresKeeps ==
    ASSUME TimerInv, NEW k \in Timers, TimerFires(k)
    PROVE  TimerInv'
  BY DEF TimerInv, TimerFires

\* Steps that have nothing to do with the timers.
LEMMA OthersKeep ==
    ASSUME TimerInv, UNCHANGED clock
    PROVE  TimerInv'
  BY DEF TimerInv, clock

LEMMA TimerStep ==
    ASSUME TimerInv, [Next]_vars
    PROVE  TimerInv'
<1>1. CASE UNCHANGED vars
  BY <1>1, OthersKeep DEF vars, clock
<1>2. CASE KernelIrq
  BY <1>2, TickKeeps DEF KernelIrq
<1>3. ASSUME NEW k \in Timers, TimerFires(k)
      PROVE  TimerInv'
  BY <1>3, FiresKeeps
<1>4. ASSUME NEW k \in Timers, PeriodFires(k)
      PROVE  TimerInv'
  BY <1>4, OthersKeep DEF PeriodFires
<1>5. ASSUME NEW t \in Threads, TimerIrq(t)
      PROVE  TimerInv'
  BY <1>5, TickKeeps DEF TimerIrq
<1>6. ASSUME NEW t \in Threads, NEW kind \in {"once", "period"}, NEW ms \in Delays, SetTimer(t, kind, ms)
      PROVE  TimerInv'
  BY <1>6, SetTimerKeeps
<1>7. ASSUME NEW t \in Threads, DisarmTimers(t)
      PROVE  TimerInv'
  BY <1>7, DisarmKeeps
<1>8. ASSUME NEW t \in Threads, Resume(t) \/ EnterHandler(t) \/ DefaultEnds(t) \/ CallEnds(t)
      PROVE  TimerInv'
  BY <1>8, OthersKeep DEF Resume, EnterHandler, RunUser, DefaultEnds, CallEnds
<1>9. ASSUME NEW t \in Threads, Fault(t) \/ SchedYield(t) \/ Work(t) \/ Exit(t) \/ Killed(t)
      PROVE  TimerInv'
  BY <1>9, OthersKeep DEF Fault, Call, SchedYield, Work, Exit, Killed, LeaveLoop, clock
<1>10. ASSUME NEW t \in Threads, Sigreturn(t) \/ Exec(t)
       PROVE  TimerInv'
  BY <1>10, OthersKeep DEF Sigreturn, Exec, Call, clock
<1>11. ASSUME NEW t \in Threads, NEW ms \in Delays, Nanosleep(t, ms)
       PROVE  TimerInv'
  BY <1>11, OthersKeep DEF Nanosleep, WakeAfter, Pends
<1>12. ASSUME NEW t \in Threads, NEW abs \in 1 .. MaxNow, ClockNanosleep(t, abs)
       PROVE  TimerInv'
  BY <1>12, OthersKeep DEF ClockNanosleep, WakeAfter, Pends, Fault, Call, clock
<1>13. ASSUME NEW t \in Threads, NEW v \in FpVals, WriteFp(t, v)
       PROVE  TimerInv'
  BY <1>13, OthersKeep DEF WriteFp
<1>14. ASSUME NEW t \in Threads, NEW s \in Sigs, Sigwait(t, s)
       PROVE  TimerInv'
  BY <1>14, OthersKeep DEF Sigwait, Pends, Fault, Call, clock
<1>15. ASSUME NEW t \in Threads, NEW s \in Sigs, KillGroup(t, s)
       PROVE  TimerInv'
  BY <1>15, OthersKeep DEF KillGroup, Call, clock
<1>16. ASSUME NEW t \in Threads, NEW s \in Sigs, NEW h \in {"ign", "dfl", "fn"}, Sigaction(t, s, h)
       PROVE  TimerInv'
  BY <1>16, OthersKeep DEF Sigaction, Call, clock
<1>17. ASSUME NEW t \in Threads, NEW s \in Sigs, NEW u \in Threads, Kill(t, u, s)
       PROVE  TimerInv'
  BY <1>17, OthersKeep DEF Kill, Call, clock
<1>18. ASSUME NEW t \in Threads, NEW how \in {"thread", "fork", "clear"}, Clone(t, how)
       PROVE  TimerInv'
  BY <1>18, OthersKeep DEF Clone
<1> QED
  BY <1>1, <1>2, <1>3, <1>4, <1>5, <1>6, <1>7, <1>8, <1>9, <1>10, <1>11, <1>12, <1>13,
     <1>14, <1>15, <1>16, <1>17, <1>18, Zenon DEF Next

\* SIGALRM is sent for a one-shot timer when it is due and not disarmed, whatever
\* comes between the tick that wakes it and the task that sends the signal.
THEOREM AlarmOnTimeHolds == Spec => []AlarmOnTime
<1>1. Init => TimerInv
  BY TimerInit
<1>2. TimerInv /\ [Next]_vars => TimerInv'
  BY TimerStep
<1>3. TimerInv => AlarmOnTime
  BY DEF TimerInv, AlarmOnTime
<1> QED
  BY <1>1, <1>2, <1>3, PTL DEF Spec

-------------------------------------------------------------------------------
(* The least number, from the well-foundedness of the order. *)

INSTANCE WellFoundedInduction

LEMMA LeastNumberHolds == LeastNumber
<1> SUFFICES ASSUME NEW D \in SUBSET Nat, D # {}
             PROVE  \E m \in D : \A d \in D : m <= d
  BY DEF LeastNumber
<1>1. PICK m \in D : \A y \in D : ~ (<<y, m>> \in OpToRel(<, Nat))
  BY WFMin, NatLessThanWellFounded, Zenon
<1>2. \A y \in D : ~ (y < m)
  BY <1>1, Zenon DEF OpToRel
<1>3. \A y \in D : m <= y
  BY <1>2
<1> QED
  BY <1>3

LEMMA LoopInvHolds == Spec => []LoopInv
<1>1. Init => LoopInv
  BY LoopInit
<1>2. LoopInv /\ [Next]_vars => LoopInv'
  BY LoopStep, LoopStutter, LeastNumberHolds
<1> QED
  BY <1>1, <1>2, PTL DEF Spec

\* For any number of threads that share Signals: sigreturn puts back the context
\* the same thread was interrupted in, and its assertion holds.
THEOREM ResumesInterruptedHolds == Spec => []ResumesInterrupted
<1>1. LoopInv => ResumesInterrupted
  BY DEF LoopInv, Right, Resumes, ResumesInterrupted, S
<1> QED
  BY <1>1, LoopInvHolds, PTL

\* For any number of threads on the hart: the lazily switched floating-point
\* registers hold in user mode what the thread's own code has put there.
THEOREM FpKeptHolds == Spec => []FpKept
<1>1. LoopInv => FpKept
  BY DEF LoopInv, OneRuns, Right, FpThere, FpKept
<1> QED
  BY <1>1, LoopInvHolds, PTL
==============================================================================
