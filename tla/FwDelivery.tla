----------------------------- MODULE FwDelivery -----------------------------
(***************************************************************************)
(* What the firmware updater promises about the sensor processor (CPU1):   *)
(* a stored image stays pending until CPU1 runs it, and while CPU1 has a   *)
(* half-written program an image is pending that will complete it.         *)
(***************************************************************************)
CONSTANTS Image,        \* the firmware images for CPU1
          None,         \* no image is pending
          Partial       \* CPU1 was interrupted while it was being written

VARIABLES pending,      \* the image to install, or None
          cpu1          \* the image in CPU1, or Partial

deliveryVars == <<pending, cpu1>>

DeliveryInit == pending = None /\ cpu1 \in Image

Store(i) == /\ pending = None
            /\ cpu1 \in Image
            /\ pending' = i
            /\ UNCHANGED cpu1

Begin == /\ pending # None
         /\ cpu1' = Partial
         /\ UNCHANGED pending

Finish == /\ pending # None
          /\ cpu1 = Partial
          /\ cpu1' = pending
          /\ UNCHANGED pending

Clear == /\ cpu1 = pending
         /\ pending' = None
         /\ UNCHANGED cpu1

DeliveryNext == Begin \/ Finish \/ Clear \/ \E i \in Image : Store(i)

DeliverySpec == DeliveryInit /\ [][DeliveryNext]_deliveryVars

\* A stored image is installed, however often the installation is cut short.
DeliveryFairSpec == /\ DeliverySpec
                    /\ WF_deliveryVars(Begin)
                    /\ WF_deliveryVars(Finish)
                    /\ SF_deliveryVars(Clear)
=============================================================================
