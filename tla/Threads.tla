------------------------------ MODULE Threads ------------------------------
(***************************************************************************)
(* The two places where a thread of ns-3 waits for another one: in the     *)
(* condition of the realtime engine (SystemCondition), and in select for   *)
(* an emulated device (FdNetDevice).  They share no state.  The program    *)
(* uses one of them.                                                       *)
(***************************************************************************)
EXTENDS SystemCondition, FdNetDevice

VARIABLE unit      \* which of the two

allVars == <<unit, conditionVars, vars>>

ThreadsInit == unit \in {"condition", "device"} /\ ConditionInit /\ Init

ConditionUnit == unit = "condition" /\ UNCHANGED <<unit, vars>>
DeviceUnit == unit = "device" /\ UNCHANGED <<unit, conditionVars>>

ThreadsNext ==
    \/ Lock /\ ConditionUnit
    \/ Test /\ ConditionUnit
    \/ Block /\ ConditionUnit
    \/ TimesOut /\ ConditionUnit
    \/ ReturnTimedOut /\ ConditionUnit
    \/ Relock /\ ConditionUnit
    \/ Reset /\ ConditionUnit
    \/ Wait /\ ConditionUnit
    \/ \E ns \in Timeouts : TimedWait(ns) /\ ConditionUnit
    \/ SpuriousWakeup /\ ConditionUnit
    \/ SetCondition /\ ConditionUnit
    \/ Signal /\ ConditionUnit
    \/ Tick /\ ConditionUnit
    \/ SetFileDescriptor /\ DeviceUnit
    \/ StartDevice /\ DeviceUnit
    \/ StopDevice /\ DeviceUnit
    \/ StopDeviceUnstarted /\ DeviceUnit
    \/ DestroyEvent /\ DeviceUnit
    \/ WakeThread /\ DeviceUnit
    \/ StopDeviceReturns /\ DeviceUnit
    \/ DestroyEventReturns /\ DeviceUnit
    \/ ForwardUp /\ DeviceUnit
    \/ ReaderProceeds /\ DeviceUnit
    \/ ReaderDisturbed /\ DeviceUnit
    \/ ReceiveCallback /\ DeviceUnit
    \/ ScheduleForwardUp /\ DeviceUnit
    \/ \E frame \in Frames : Arrive(frame) /\ DeviceUnit
    \/ Disposed /\ DeviceUnit

(* See SystemCondition and FdNetDevice: both threads keep running. *)
ThreadsSpec ==
    /\ ThreadsInit /\ [][ThreadsNext]_allVars
    /\ SF_allVars(WaiterStep /\ ConditionUnit) /\ SF_allVars(TimesOut /\ ConditionUnit)
    /\ SF_allVars(Signal /\ ConditionUnit) /\ WF_allVars(Tick /\ ConditionUnit)
    /\ WF_allVars(MainStep /\ DeviceUnit)
    /\ WF_allVars(ReaderStep /\ DeviceUnit)
=============================================================================
