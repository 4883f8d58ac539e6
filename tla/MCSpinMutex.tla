----------------------------- MODULE MCSpinMutex -----------------------------
(* Two harts, two mutexes and one level of nesting, so that a guard is taken *)
(* inside another and a handler can meet both.                               *)
EXTENDS SpinMutex

CONSTANTS h0, h1, m0, m1
MCHarts == {h0, h1}
MCMutexes == {m0, m1}
==============================================================================
