---------------------------- MODULE SpawnProofs ----------------------------
(***************************************************************************)
(* Proofs about Spawn for every set of signals and any number of SIGKILLs. *)
(***************************************************************************)
EXTENDS SpawnInv, TLAPS

\* Every variable keeps its type: no more than a payload is ever in the pipe and
\* the buffer together.
LEMMA NextTypes ==
  ASSUME IInv, Next
  PROVE  TypeOK'
<1> USE SpawnAssumption DEF IInv, TypeOK, PayloadInSync, AllSignals,
        PTRACE_OPTIONS, PCs, Places, ChildPCs, Results, Errnos, NoErrno,
        Commands, PayloadLen, parentVars, childVars, kernelVars, noiseVars
<1>1. CASE CheckCommand
  BY <1>1 DEF CheckCommand, Return
<1>2. CASE PipeOrForkFails
  BY <1>2 DEF PipeOrForkFails, Return
<1>3. CASE Fork
  BY <1>3 DEF Fork
<1>4. CASE DropWriteEnd
  BY <1>4 DEF DropWriteEnd
<1>5. CASE Reap
  BY <1>5 DEF Reap
<1>6. CASE FirstStop
  BY <1>6 DEF FirstStop, Return
<1>7. CASE SetOptions
  BY <1>7 DEF SetOptions
<1>8. CASE Cont
  BY <1>8 DEF Cont, AfterCont
<1>9. CASE RequestFails
  BY <1>9 DEF RequestFails, Return
<1>10. CASE SecondStop
  BY <1>10 DEF SecondStop, Return, ExecStatus
<1>11. CASE Read
  BY <1>11 DEF Read
<1>12. CASE ReadErrno
  BY <1>12 DEF ReadErrno, ExecError
<1>13. CASE Traceme
  <2>1. traced' \in BOOLEAN
    BY <1>13, Zenon DEF Traceme
  <2> QED
    BY <1>13, <2>1 DEF Traceme, Fails
<1>14. CASE Raise
  BY <1>14 DEF Raise, Fails
<1>15. CASE Execvp
  BY <1>15 DEF Execvp
<1>16. CASE ExecvpFails
  BY <1>16 DEF ExecvpFails, Fails
<1>17. CASE Report
  BY <1>17 DEF Report, Written
<1>18. CASE ExitChild
  BY <1>18 DEF ExitChild, Dies
<1>19. CASE OwnStop
  BY <1>19 DEF OwnStop
<1>20. CASE TakeSignal
  BY <1>20 DEF TakeSignal, Dies
<1>21. CASE SendSignal
  BY <1>21 DEF SendSignal
<1>22. CASE Kill
  BY <1>22 DEF Kill, Dies
<1>23. CASE Over
  BY <1>23 DEF Over, vars
<1> HIDE DEF IInv
<1> QED
  BY <1>1, <1>2, <1>3, <1>4, <1>5, <1>6, <1>7, <1>8, <1>9, <1>10, <1>11, <1>12,
     <1>13, <1>14, <1>15, <1>16, <1>17, <1>18, <1>19, <1>20, <1>21, <1>22, <1>23
  DEF Next, Parent, Child

\* The child is where the place of the parent says, and its code is as far.
LEMMA NextPlaces ==
  ASSUME IInv, Next
  PROVE  (InStep /\ Unforked /\ TracedInSync /\ OptionsInSync)'
<1> USE SpawnAssumption DEF IInv, TypeOK, InStep, Unforked, TracedInSync,
        OptionsInSync, WritersInSync, PayloadInSync, PlacesAt, Alive,
        PTRACE_OPTIONS, NoErrno, parentVars, childVars, kernelVars, noiseVars
<1>1. CASE CheckCommand
  BY <1>1 DEF CheckCommand, Return
<1>2. CASE PipeOrForkFails
  BY <1>2 DEF PipeOrForkFails, Return
<1>3. CASE Fork
  BY <1>3 DEF Fork
<1>4. CASE DropWriteEnd
  BY <1>4 DEF DropWriteEnd
<1>5. CASE Reap
  BY <1>5 DEF Reap
<1>6. CASE FirstStop
  BY <1>6 DEF FirstStop, Return
<1>7. CASE SetOptions
  BY <1>7 DEF SetOptions
<1>8. CASE Cont
  BY <1>8 DEF Cont, AfterCont
<1>9. CASE RequestFails
  BY <1>9 DEF RequestFails, Return
<1>10. CASE SecondStop
  BY <1>10 DEF SecondStop, Return, ExecStatus
<1>11. CASE Read
  BY <1>11 DEF Read
<1>12. CASE ReadErrno
  BY <1>12 DEF ReadErrno, ExecError
<1>13. CASE Traceme
  BY <1>13 DEF Traceme, Fails
<1>14. CASE Raise
  BY <1>14 DEF Raise, Fails
<1>15. CASE Execvp
  BY <1>15 DEF Execvp
<1>16. CASE ExecvpFails
  BY <1>16 DEF ExecvpFails, Fails
<1>17. CASE Report
  BY <1>17 DEF Report, Written
<1>18. CASE ExitChild
  BY <1>18 DEF ExitChild, Dies
<1>19. CASE OwnStop
  BY <1>19 DEF OwnStop
<1>20. CASE TakeSignal
  BY <1>20 DEF TakeSignal, Dies
<1>21. CASE SendSignal
  BY <1>21 DEF SendSignal
<1>22. CASE Kill
  BY <1>22 DEF Kill, Dies
<1>23. CASE Over
  BY <1>23 DEF Over, vars
<1> HIDE DEF IInv
<1> QED
  BY <1>1, <1>2, <1>3, <1>4, <1>5, <1>6, <1>7, <1>8, <1>9, <1>10, <1>11, <1>12,
     <1>13, <1>14, <1>15, <1>16, <1>17, <1>18, <1>19, <1>20, <1>21, <1>22, <1>23
  DEF Next, Parent, Child

\* The ends and the contents of the pipe, and the signals under way.
LEMMA NextPipe ==
  ASSUME IInv, Next
  PROVE  (SignalsSent /\ WritersInSync /\ PayloadInSync)'
<1> USE SpawnAssumption DEF IInv, TypeOK, InStep, Unforked, TracedInSync,
        OptionsInSync, SignalsSent, WritersInSync, PayloadInSync, PlacesAt,
        Alive, Errnos, PTRACE_OPTIONS, NoErrno, PayloadLen, parentVars,
        childVars, kernelVars, noiseVars
<1>1. CASE CheckCommand
  BY <1>1 DEF CheckCommand, Return
<1>2. CASE PipeOrForkFails
  BY <1>2 DEF PipeOrForkFails, Return
<1>3. CASE Fork
  BY <1>3 DEF Fork
<1>4. CASE DropWriteEnd
  BY <1>4 DEF DropWriteEnd
<1>5. CASE Reap
  BY <1>5 DEF Reap
<1>6. CASE FirstStop
  BY <1>6 DEF FirstStop, Return
<1>7. CASE SetOptions
  BY <1>7 DEF SetOptions
<1>8. CASE Cont
  BY <1>8 DEF Cont, AfterCont
<1>9. CASE RequestFails
  BY <1>9 DEF RequestFails, Return
<1>10. CASE SecondStop
  BY <1>10 DEF SecondStop, Return, ExecStatus
<1>11. CASE Read
  BY <1>11 DEF Read
<1>12. CASE ReadErrno
  BY <1>12 DEF ReadErrno, ExecError
<1>13. CASE Traceme
  BY <1>13 DEF Traceme, Fails
<1>14. CASE Raise
  BY <1>14 DEF Raise, Fails
<1>15. CASE Execvp
  BY <1>15 DEF Execvp
<1>16. CASE ExecvpFails
  BY <1>16 DEF ExecvpFails, Fails
<1>17. CASE Report
  BY <1>17 DEF Report, Written
<1>18. CASE ExitChild
  BY <1>18 DEF ExitChild, Dies
<1>19. CASE OwnStop
  BY <1>19 DEF OwnStop
<1>20. CASE TakeSignal
  BY <1>20 DEF TakeSignal, Dies
<1>21. CASE SendSignal
  BY <1>21 DEF SendSignal
<1>22. CASE Kill
  BY <1>22 DEF Kill, Dies
<1>23. CASE Over
  BY <1>23 DEF Over, vars
<1> HIDE DEF IInv
<1> QED
  BY <1>1, <1>2, <1>3, <1>4, <1>5, <1>6, <1>7, <1>8, <1>9, <1>10, <1>11, <1>12,
     <1>13, <1>14, <1>15, <1>16, <1>17, <1>18, <1>19, <1>20, <1>21, <1>22, <1>23
  DEF Next, Parent, Child

\* What a child does that nobody interferes with.
LEMMA NextQuiet ==
  ASSUME IInv, Next
  PROVE  QuietChild'
<1> USE SpawnAssumption DEF IInv, TypeOK, InStep, Unforked, TracedInSync,
        OptionsInSync, SignalsSent, QuietChild, PlacesAt, Alive, PTRACE_OPTIONS,
        Quiet, parentVars, childVars, kernelVars, noiseVars
<1>1. CASE CheckCommand
  BY <1>1 DEF CheckCommand, Return
<1>2. CASE PipeOrForkFails
  BY <1>2 DEF PipeOrForkFails, Return
<1>3. CASE Fork
  BY <1>3 DEF Fork
<1>4. CASE DropWriteEnd
  BY <1>4 DEF DropWriteEnd
<1>5. CASE Reap
  BY <1>5 DEF Reap
<1>6. CASE FirstStop
  BY <1>6 DEF FirstStop, Return
<1>7. CASE SetOptions
  BY <1>7 DEF SetOptions
<1>8. CASE Cont
  BY <1>8 DEF Cont, AfterCont
<1>9. CASE RequestFails
  BY <1>9 DEF RequestFails, Return
<1>10. CASE SecondStop
  BY <1>10 DEF SecondStop, Return, ExecStatus
<1>11. CASE Read
  BY <1>11 DEF Read
<1>12. CASE ReadErrno
  BY <1>12 DEF ReadErrno, ExecError
<1>13. CASE Traceme
  BY <1>13 DEF Traceme, Fails
<1>14. CASE Raise
  BY <1>14 DEF Raise, Fails
<1>15. CASE Execvp
  BY <1>15 DEF Execvp
<1>16. CASE ExecvpFails
  BY <1>16 DEF ExecvpFails, Fails
<1>17. CASE Report
  BY <1>17 DEF Report, Written
<1>18. CASE ExitChild
  BY <1>18 DEF ExitChild, Dies
<1>19. CASE OwnStop
  BY <1>19 DEF OwnStop
<1>20. CASE TakeSignal
  BY <1>20 DEF TakeSignal, Dies
<1>21. CASE SendSignal
  BY <1>21 DEF SendSignal
<1>22. CASE Kill
  BY <1>22 DEF Kill, Dies
<1>23. CASE Over
  BY <1>23 DEF Over, vars
<1> HIDE DEF IInv
<1> QED
  BY <1>1, <1>2, <1>3, <1>4, <1>5, <1>6, <1>7, <1>8, <1>9, <1>10, <1>11, <1>12,
     <1>13, <1>14, <1>15, <1>16, <1>17, <1>18, <1>19, <1>20, <1>21, <1>22, <1>23
  DEF Next, Parent, Child

\* What spawn returns is true.
LEMMA NextResult ==
  ASSUME IInv, Next
  PROVE  (OkAtExec /\ ExecErrnoTrue /\ ResultExact /\ ReadNeverBlocks)'
<1> USE SpawnAssumption DEF IInv, TypeOK, InStep, Unforked, TracedInSync,
        OptionsInSync, SignalsSent, WritersInSync, PayloadInSync, QuietChild,
        OkAtExec, ExecErrnoTrue, ResultExact, ReadNeverBlocks, PlacesAt, Alive,
        PTRACE_OPTIONS, NoErrno, PayloadLen, Quiet, parentVars, childVars,
        kernelVars, noiseVars
<1>1. CASE CheckCommand
  BY <1>1 DEF CheckCommand, Return
<1>2. CASE PipeOrForkFails
  BY <1>2 DEF PipeOrForkFails, Return
<1>3. CASE Fork
  BY <1>3 DEF Fork
<1>4. CASE DropWriteEnd
  BY <1>4 DEF DropWriteEnd
<1>5. CASE Reap
  BY <1>5 DEF Reap
<1>6. CASE FirstStop
  BY <1>6 DEF FirstStop, Return
<1>7. CASE SetOptions
  BY <1>7 DEF SetOptions
<1>8. CASE Cont
  BY <1>8 DEF Cont, AfterCont
<1>9. CASE RequestFails
  BY <1>9 DEF RequestFails, Return
<1>10. CASE SecondStop
  BY <1>10 DEF SecondStop, Return, ExecStatus
<1>11. CASE Read
  BY <1>11 DEF Read
<1>12. CASE ReadErrno
  BY <1>12 DEF ReadErrno, ExecError
<1>13. CASE Traceme
  BY <1>13 DEF Traceme, Fails
<1>14. CASE Raise
  BY <1>14 DEF Raise, Fails
<1>15. CASE Execvp
  BY <1>15 DEF Execvp
<1>16. CASE ExecvpFails
  BY <1>16 DEF ExecvpFails, Fails
<1>17. CASE Report
  BY <1>17 DEF Report, Written
<1>18. CASE ExitChild
  BY <1>18 DEF ExitChild, Dies
<1>19. CASE OwnStop
  BY <1>19 DEF OwnStop
<1>20. CASE TakeSignal
  BY <1>20 DEF TakeSignal, Dies
<1>21. CASE SendSignal
  BY <1>21 DEF SendSignal
<1>22. CASE Kill
  BY <1>22 DEF Kill, Dies
<1>23. CASE Over
  BY <1>23 DEF Over, vars
<1> HIDE DEF IInv
<1> QED
  BY <1>1, <1>2, <1>3, <1>4, <1>5, <1>6, <1>7, <1>8, <1>9, <1>10, <1>11, <1>12,
     <1>13, <1>14, <1>15, <1>16, <1>17, <1>18, <1>19, <1>20, <1>21, <1>22, <1>23
  DEF Next, Parent, Child

\* The invariant holds before the fork.
LEMMA InitInv == Init => IInv
<1>0. Init => traced \in BOOLEAN
  BY Zenon DEF Init
<1>1. Init => TypeOK
  BY <1>0 DEF Init, TypeOK, PCs, Places, ChildPCs, Results, Errnos, NoErrno, Commands, PayloadLen,
       AllSignals
<1> QED
  BY <1>1 DEF Init, IInv, InStep, Unforked, TracedInSync, OptionsInSync, SignalsSent,
       WritersInSync, PayloadInSync, QuietChild, OkAtExec, ExecErrnoTrue, ResultExact,
       ReadNeverBlocks, PlacesAt, Alive, Quiet, PCs, Places, ChildPCs, Results, Errnos,
       NoErrno, Commands, PayloadLen, AllSignals, PTRACE_OPTIONS

\* The invariant is inductive: each of its parts is kept by every step, given
\* the others (spawn, finish_parent, run_child).
THEOREM Inductive == Spec => []IInv
<1>1. IInv /\ [Next]_vars => IInv'
  <2>1. ASSUME IInv, Next
        PROVE  IInv'
    BY <2>1, NextTypes, NextPlaces, NextPipe, NextQuiet, NextResult DEF IInv
  <2>2. ASSUME IInv, UNCHANGED vars
        PROVE  IInv'
    BY <2>2
    DEF vars, parentVars, childVars, kernelVars, noiseVars, IInv, TypeOK, InStep,
        Unforked, TracedInSync, OptionsInSync, SignalsSent, WritersInSync,
        PayloadInSync, QuietChild, OkAtExec, ExecErrnoTrue, ResultExact,
        ReadNeverBlocks, Quiet
  <2> QED
    BY <2>1, <2>2
<1> QED
  BY <1>1, InitInv, PTL DEF Spec

-----------------------------------------------------------------------------
(* What a caller of spawn may rely on.                                     *)

\* Every variable keeps its type, the payload of the pipe its length.
THEOREM TypeCorrect == Spec => []TypeOK
<1>1. IInv => TypeOK
  BY DEF IInv
<1> QED
  BY <1>1, Inductive, PTL

\* Tracer::run starts from the EVENT_EXEC stop of a root with every option set,
\* however the child, the signals and SIGKILL interleave with spawn, as long as
\* nobody sends a SIGTRAP of his own.
THEOREM OkIsAtExec == Spec => []OkAtExec
<1>1. IInv => OkAtExec
  BY DEF IInv
<1> QED
  BY <1>1, Inductive, PTL

\* The errno of Error::Exec is the child's, and the child is reaped.
THEOREM ExecErrnoIsTrue == Spec => []ExecErrnoTrue
<1>1. IInv => ExecErrnoTrue
  BY DEF IInv
<1> QED
  BY <1>1, Inductive, PTL

\* Without interference each outcome of the child has one result, and no error
\* leaves a child behind.
THEOREM ResultIsExact == Spec => []ResultExact
<1>1. IInv => ResultExact
  BY DEF IInv
<1> QED
  BY <1>1, Inductive, PTL

\* read_exec_errno meets the end of the pipe: no write end is left open.
THEOREM ReadEnds == Spec => []ReadNeverBlocks
<1>1. IInv => ReadNeverBlocks
  BY DEF IInv
<1> QED
  BY <1>1, Inductive, PTL

=============================================================================
