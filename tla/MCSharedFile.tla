------------------------------ MODULE MCSharedFile ------------------------------
EXTENDS SharedFile, TLC

CONSTANTS p1, p2

\* One proxy has two rows to flush, and may fail half-way.
MCMaxFrames == p1 :> 2 @@ p2 :> 1
MCMaxFaults == p1 :> 1 @@ p2 :> 0

\* Both may fail.
MCOneFrame == p1 :> 1 @@ p2 :> 1
MCOneFault == p1 :> 1 @@ p2 :> 1

\* Nothing fails but by the lock.
MCNoFault == p1 :> 0 @@ p2 :> 0
===============================================================================
