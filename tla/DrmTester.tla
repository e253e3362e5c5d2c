------------------------------ MODULE DrmTester ------------------------------
(***************************************************************************)
(* deadlock_demolition/libdrm_tester.c: main creates drm1 and drm2, starts *)
(* two threads that lock them in opposite orders, joins both and destroys  *)
(* the drms.                                                               *)
(***************************************************************************)
EXTENDS Drm, Sequences, TLC

CONSTANTS tid1, tid2, drm1, drm2

VARIABLES pc,    \* the next call of each thread: an index into Program
          main   \* main's next call: an index into MainProgram

testerVars == <<vars, pc, main>>

Program == tid1 :> <<<<"wait", drm1>>, <<"wait", drm2>>, <<"post", drm1>>, <<"post", drm2>>>>
        @@ tid2 :> <<<<"wait", drm2>>, <<"wait", drm1>>, <<"post", drm1>>, <<"post", drm2>>>>

MainProgram == << <<"init", drm1>>, <<"init", drm2>>, <<"join", tid1>>, <<"join", tid2>>,
                  <<"destroy", drm1>>, <<"destroy", drm2>> >>

Finished(t) == pc[t] > Len(Program[t])

TesterInit == Init /\ pc = [t \in {tid1, tid2} |-> 1] /\ main = 1

\* The threads are created after both drm_init calls.
MainStep == /\ main <= Len(MainProgram)
            /\ LET call == MainProgram[main] IN
                 \/ call[1] = "init" /\ DrmInit(call[2])
                 \/ call[1] = "join" /\ Finished(call[2]) /\ UNCHANGED vars
                 \/ call[1] = "destroy" /\ DrmDestroy(call[2])
            /\ main' = main + 1
            /\ UNCHANGED pc

\* A thread's next call returns, or (mutex' = t) goes on to line 92.
ThreadStep(t) == /\ main > 2 /\ ~Finished(t)
                 /\ LET call == Program[t][pc[t]] IN
                      \/ call[1] = "wait" /\ WaitEnter(t, call[2])
                      \/ call[1] = "wait" /\ WaitLock(t)
                      \/ call[1] = "post" /\ Post(t, call[2])
                 /\ pc' = IF mutex' = t THEN pc ELSE [pc EXCEPT ![t] = @ + 1]
                 /\ UNCHANGED main

TesterNext == MainStep \/ ThreadStep(tid1) \/ ThreadStep(tid2)

TesterSpec == /\ TesterInit /\ [][TesterNext]_testerVars
              /\ WF_testerVars(MainStep)
              /\ WF_testerVars(ThreadStep(tid1)) /\ WF_testerVars(ThreadStep(tid2))

\* main's pthread_join calls return and it reaches its return statement
\* (libdrm_tester.c:39-43).
TesterReturns == <>(main > Len(MainProgram))
=============================================================================
