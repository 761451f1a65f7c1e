-------------------------- MODULE MCFrameDelivery --------------------------
(***************************************************************************)
(* Small instances of FrameDelivery: with dmabufs, two casts of one        *)
(* session handle one after the other; in shared memory, two casts at a    *)
(* time.  A behaviour is followed until something left of an earlier       *)
(* stream or set of buffers crosses over, past which nothing is claimed.   *)
(***************************************************************************)
EXTENDS FrameDelivery

CONSTANTS
    First,      \* the handle of the first cast
    GpuHandles  \* the handles used where there are dmabufs (bound)

MCNext ==
    /\ ~crossed
    /\ DeliveryNext
    /\ \A h \in Handles \ {First} : casts[h] = None /\ casts'[h] # None => casts[First] # None
    /\ gpuBuffers => \A h \in Handles \ GpuHandles : casts'[h] = None

MCSpec == DeliveryInit /\ [][MCNext]_deliveryVars /\ DeliveryFairness
=============================================================================
