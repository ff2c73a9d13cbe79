------------------------------ MODULE MCTools ------------------------------
\* The programs beside ludp_host.py, one of them at work in any behaviour.
EXTENDS PacketGen, DpiSocket, CoverageReport, LudpRecv

MCCredits == {-1, 64, \h01020304}

elemVals == [fid : {1, 2}, line : {3}, line_f : {4}, ignore : {FALSE}, found : {{"core"}, {}}]
            \cup {[fid |-> 1, line |-> 5, line_f |-> 0, ignore |-> TRUE, found |-> {"tb", "lib"}],
                  [fid |-> 2, line |-> 6, line_f |-> 3, ignore |-> FALSE, found |-> {"tb", "core"}],
                  [fid |-> 1, line |-> 0, line_f |-> 6, ignore |-> FALSE, found |-> {}]}

MCShapes ==
  {<<[chksum |-> "a", elems |-> <<d, e>>], [chksum |-> "b", elems |-> <<f>>]>> :
     d \in elemVals, e \in elemVals, f \in {e \in elemVals : e.line = 6}}

MCData ==
  {<<[chksum |-> "a", bits |-> s], [chksum |-> "b", bits |-> <<0>>], [chksum |-> "a", bits |-> t]>> :
     s \in {<<0, 1>>, <<1>>}, t \in {<<0, 0, 1>>, <<1, 1>>}}
  \cup {<<[chksum |-> "c", bits |-> <<1>>]>>}

Init == GenInit /\ DpiSocketInit /\ CovInit /\ LudpRecvInit

Next ==
  \/ DpiSocketInit /\ CovInit /\ LudpRecvInit /\ GenNext /\ UNCHANGED <<dpiVars, covVars, recvVars>>
  \/ GenInit /\ CovInit /\ LudpRecvInit /\ DpiSocketNext /\ UNCHANGED <<genVars, covVars, recvVars>>
  \/ GenInit /\ DpiSocketInit /\ LudpRecvInit /\ CovNext /\ UNCHANGED <<genVars, dpiVars, recvVars>>
  \/ GenInit /\ DpiSocketInit /\ CovInit /\ LudpRecvNext /\ UNCHANGED <<genVars, dpiVars, covVars>>

vars == <<genVars, dpiVars, covVars, recvVars>>

Spec == Init /\ [][Next]_vars /\ DpiSocketFairness
=============================================================================
