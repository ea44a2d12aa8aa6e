--------------------------- MODULE UpsMonitor_proofs ---------------------------
(* Proofs about UpsMonitor, for any number of clients and any limits.      *)
EXTENDS UpsMonitor, TLAPS

(* The main loop reads only with a protocol, into data that is reset, and  *)
(* its update stays due until the read has ended.  A device that goes      *)
(* meanwhile is lost.                                                      *)
ReadingSound ==
  reading =>
    /\ protocol /\ ~ failed /\ due /\ data = "alarm"
    /\ lost \/ connected

(* Outside of a read the data is what the last read gave.                  *)
DataSound == ~ reading => data = lastRead

(* A reading that is kept belongs to the device that is connected and, if  *)
(* its protocol is known, is younger than an update, or an update is due   *)
(* that will replace it; unless the device has gone.                       *)
KeptSound ==
  data \in Power /\ ~ lost =>
    /\ connected
    /\ protocol => ~ failed /\ (age = 0 \/ (age = 1 /\ due))

(* Detection that fails once more than is allowed is given up.             *)
FailuresSound == ~ failed => failures <= MaxFailures

(* A device that waits to be opened is not open, or its end is handled     *)
(* before; an open one is on the bus, or its end is about to be handled.   *)
AnnouncedSound ==
  /\ announced => ~ connected \/ detached
  /\ connected /\ ~ detached => OnBus

IInv ==
  /\ MonitorTypeOK /\ AnnouncedSound
  /\ ReadingSound /\ DataSound /\ KeptSound /\ FailuresSound
  /\ StatusIsLastRead /\ ConnectedIsFresh

(* The types, part by part.                                                *)
Flags ==
  /\ plugged \in BOOLEAN /\ powered \in BOOLEAN /\ silent \in BOOLEAN
  /\ announced \in BOOLEAN /\ connected \in BOOLEAN /\ detached \in BOOLEAN
  /\ partly \in BOOLEAN /\ due \in BOOLEAN /\ reading \in BOOLEAN
  /\ protocol \in BOOLEAN /\ failed \in BOOLEAN /\ lost \in BOOLEAN

Counts ==
  /\ failures \in 0 .. MaxFailures + 1 /\ age \in 0 .. 2
  /\ since \in 0 .. Wrap - 1 /\ now \in 0 .. Wrap - 1

Heard == data \in Statuses /\ lastRead \in Statuses /\ answer \in Answers

Places ==
  /\ slot \in [Slots -> {"free", "idle"} \cup InHand]
  /\ last \in [Slots -> 0 .. Wrap - 1]

LEMMA TypeParts == MonitorTypeOK <=> Flags /\ Counts /\ Heard /\ Places
  BY DEF MonitorTypeOK, Flags, Counts, Heard, Places

LEMMA InitInv == Init => IInv
  <1> SUFFICES ASSUME Init PROVE IInv
    OBVIOUS
  <1>1. Flags
    BY DEF Init, Flags
  <1>2. Counts /\ Places
    BY MonitorAssumption DEF Init, Counts, Places
  <1>3. Heard
    BY DEF Init, Heard, Statuses, Answers
  <1>4. AnnouncedSound /\ ReadingSound /\ DataSound /\ FailuresSound
    BY MonitorAssumption DEF Init, AnnouncedSound, ReadingSound, DataSound, FailuresSound
  <1>5. KeptSound /\ StatusIsLastRead /\ ConnectedIsFresh
    BY MonitorAssumption DEF Init, KeptSound, StatusIsLastRead, ConnectedIsFresh, Statuses
  <1> QED BY <1>1, <1>2, <1>3, <1>4, <1>5, TypeParts DEF IInv

(* A power cycle, successful or not, forgets the failures or keeps them.    *)
LEMMA PowerCycleCounts ==
  ASSUME PowerCycled \/ PowerCycleFailed
  PROVE  failures' = 0 \/ failures' = failures
  BY DEF PowerCycled, PowerCycleFailed, ResetProtocol

LEMMA FlagsStep ==
  ASSUME Flags, Next
  PROVE  Flags'
  <1> USE DEF Flags, usbVars, hidVars, nutVars, seenVars
  <1>1. CASE Plugged
    BY <1>1 DEF Plugged
  <1>2. CASE Unplugged
    BY <1>2 DEF Unplugged, Interrupted
  <1>3. CASE Silenced
    BY <1>3 DEF Silenced, Interrupted
  <1>4. CASE handle_new_device
    <2>1. OnBus \in BOOLEAN /\ (OnBus /\ ~ silent) \in BOOLEAN
      BY DEF OnBus
    <2> QED BY <1>4, <2>1 DEF handle_new_device
  <1>5. CASE handle_device_gone
    BY <1>5 DEF handle_device_gone
  <1>6. CASE UpdateAway
    BY <1>6 DEF UpdateAway, Update, PowerCycled, PowerCycleFailed, ResetProtocol, Dangle
  <1>7. CASE UpdateUndetected
    <2>1. (failures' > MaxFailures) \in BOOLEAN
      OBVIOUS
    <2> QED BY <1>7, <2>1 DEF UpdateUndetected, Update
  <1>8. CASE UpdateRead
    BY <1>8 DEF UpdateRead, ReadBegins, Update
  <1>9. CASE ReadDone
    BY <1>9 DEF ReadDone
  <1>10. CASE ReadFailed
    BY <1>10 DEF ReadFailed, ResetProtocol, Dangle
  <1>11. CASE Accepted
    BY <1>11 DEF Accepted, Put, Free
  <1>12. CASE ResetPressed
    BY <1>12 DEF ResetPressed, PowerCycled, PowerCycleFailed, ResetProtocol, Dangle
  <1>13. CASE Crash
    BY <1>13 DEF Crash
  <1>14. CASE Tick
    BY <1>14 DEF Tick
  <1>15. ASSUME NEW s \in Slots, Asked(s) \/ Closed(s) \/ NutTask(s) \/ Cleaned(s)
       PROVE  Flags'
    <2>1. CASE Asked(s)
      BY <2>1 DEF Asked
    <2>2. CASE Closed(s)
      BY <2>2 DEF Closed, Put
    <2>3. CASE StatusHandled(s)
      BY <2>3 DEF StatusHandled, Put
    <2>4. CASE StatusBuilt(s)
      BY <2>4 DEF StatusBuilt, Put
    <2>5. CASE CommandHandled(s)
      BY <2>5 DEF CommandHandled, Put
    <2>6. CASE CommandDone(s)
      BY <2>6 DEF CommandDone, Put
    <2>7. CASE Cleaned(s)
      BY <2>7 DEF Cleaned, Put
    <2>8. CASE StatusGone(s)
      BY <2>8 DEF StatusGone, Put
    <2> QED BY <1>15, <2>1, <2>2, <2>3, <2>4, <2>5, <2>6, <2>7, <2>8 DEF NutTask
  <1> QED BY <1>1, <1>2, <1>3, <1>4, <1>5, <1>6, <1>7, <1>8,
    <1>9, <1>10, <1>11, <1>12, <1>13, <1>14, <1>15 DEF Next, UsbTask, MainLoop

LEMMA CountsStep ==
  ASSUME Counts, ReadingSound, FailuresSound, Next
  PROVE  Counts'
  <1> USE MonitorAssumption DEF Counts, ReadingSound, FailuresSound, usbVars, hidVars, nutVars, seenVars
  <1>1. CASE Plugged
    BY <1>1 DEF Plugged
  <1>2. CASE Unplugged
    BY <1>2 DEF Unplugged, Interrupted
  <1>3. CASE Silenced
    BY <1>3 DEF Silenced, Interrupted
  <1>4. CASE handle_new_device
    BY <1>4 DEF handle_new_device
  <1>5. CASE handle_device_gone
    BY <1>5 DEF handle_device_gone
  <1>6. CASE UpdateAway
    BY <1>6, PowerCycleCounts DEF UpdateAway, Update
  <1>7. CASE UpdateUndetected
    BY <1>7 DEF UpdateUndetected, Update
  <1>8. CASE UpdateRead
    BY <1>8 DEF UpdateRead, ReadBegins, Update
  <1>9. CASE ReadDone
    BY <1>9 DEF ReadDone
  <1>10. CASE ReadFailed
    <2>1. failures' \in 0 .. MaxFailures + 1
      <3>1. CASE failures + 1 > MaxFailures
        BY <1>10, <3>1 DEF ReadFailed, ResetProtocol
      <3>2. CASE ~ (failures + 1 > MaxFailures)
        BY <1>10, <3>2 DEF ReadFailed
      <3> QED BY <3>1, <3>2
    <2> QED BY <1>10, <2>1 DEF ReadFailed
  <1>11. CASE Accepted
    BY <1>11 DEF Accepted, Put, Free
  <1>12. CASE ResetPressed
    BY <1>12, PowerCycleCounts DEF ResetPressed
  <1>13. CASE Crash
    BY <1>13 DEF Crash
  <1>14. CASE Tick
    BY <1>14 DEF Tick
  <1>15. ASSUME NEW s \in Slots, Asked(s) \/ Closed(s) \/ NutTask(s) \/ Cleaned(s)
       PROVE  Counts'
    <2>1. CASE Asked(s)
      BY <2>1 DEF Asked
    <2>2. CASE Closed(s)
      BY <2>2 DEF Closed, Put
    <2>3. CASE StatusHandled(s)
      BY <2>3 DEF StatusHandled, Put
    <2>4. CASE StatusBuilt(s)
      BY <2>4 DEF StatusBuilt, Put
    <2>5. CASE CommandHandled(s)
      BY <2>5 DEF CommandHandled, Put
    <2>6. CASE CommandDone(s)
      BY <2>6 DEF CommandDone, Put
    <2>7. CASE Cleaned(s)
      BY <2>7 DEF Cleaned, Put
    <2>8. CASE StatusGone(s)
      BY <2>8 DEF StatusGone, Put
    <2> QED BY <1>15, <2>1, <2>2, <2>3, <2>4, <2>5, <2>6, <2>7, <2>8 DEF NutTask
  <1> QED BY <1>1, <1>2, <1>3, <1>4, <1>5, <1>6, <1>7, <1>8,
    <1>9, <1>10, <1>11, <1>12, <1>13, <1>14, <1>15 DEF Next, UsbTask, MainLoop

LEMMA AnnouncedStep ==
  ASSUME Flags, AnnouncedSound, Next
  PROVE  AnnouncedSound'
  <1> USE DEF Flags, AnnouncedSound, OnBus, usbVars, hidVars, nutVars, seenVars
  <1>1. CASE Plugged
    BY <1>1 DEF Plugged
  <1>2. CASE Unplugged
    BY <1>2 DEF Unplugged, Interrupted
  <1>3. CASE Silenced
    BY <1>3 DEF Silenced, Interrupted
  <1>4. CASE handle_new_device
    BY <1>4 DEF handle_new_device
  <1>5. CASE handle_device_gone
    BY <1>5 DEF handle_device_gone
  <1>6. CASE UpdateAway
    BY <1>6 DEF UpdateAway, Update, PowerCycled, PowerCycleFailed, ResetProtocol, Dangle
  <1>7. CASE UpdateUndetected
    BY <1>7 DEF UpdateUndetected, Update
  <1>8. CASE UpdateRead
    BY <1>8 DEF UpdateRead, ReadBegins, Update
  <1>9. CASE ReadDone
    BY <1>9 DEF ReadDone
  <1>10. CASE ReadFailed
    BY <1>10 DEF ReadFailed, ResetProtocol, Dangle
  <1>11. CASE Accepted
    BY <1>11 DEF Accepted, Put, Free
  <1>12. CASE ResetPressed
    <2>1. CASE PowerCycled
      BY <1>12, <2>1 DEF ResetPressed, PowerCycled
    <2>2. CASE PowerCycleFailed
      <3>1. UNCHANGED <<plugged, connected, announced>>
        BY <1>12, <2>2 DEF ResetPressed, PowerCycleFailed
      <3>2. CASE powered'
        <4>1. powered /\ (detached' <=> connected /\ detached)
          BY <2>2, <3>2 DEF PowerCycleFailed
        <4> QED BY <3>1, <3>2, <4>1
      <3>3. CASE ~ powered'
        <4>1. detached' <=> connected
          BY <2>2, <3>3 DEF PowerCycleFailed
        <4> QED BY <3>1, <4>1
      <3> QED BY <3>2, <3>3
    <2> QED BY <1>12, <2>1, <2>2 DEF ResetPressed
  <1>13. CASE Crash
    BY <1>13 DEF Crash
  <1>14. CASE Tick
    BY <1>14 DEF Tick
  <1>15. ASSUME NEW s \in Slots, Asked(s) \/ Closed(s) \/ NutTask(s) \/ Cleaned(s)
       PROVE  AnnouncedSound'
    <2>1. CASE Asked(s)
      BY <2>1 DEF Asked
    <2>2. CASE Closed(s)
      BY <2>2 DEF Closed, Put
    <2>3. CASE StatusHandled(s)
      BY <2>3 DEF StatusHandled, Put
    <2>4. CASE StatusBuilt(s)
      BY <2>4 DEF StatusBuilt, Put
    <2>5. CASE CommandHandled(s)
      BY <2>5 DEF CommandHandled, Put
    <2>6. CASE CommandDone(s)
      BY <2>6 DEF CommandDone, Put
    <2>7. CASE Cleaned(s)
      BY <2>7 DEF Cleaned, Put
    <2>8. CASE StatusGone(s)
      BY <2>8 DEF StatusGone, Put
    <2> QED BY <1>15, <2>1, <2>2, <2>3, <2>4, <2>5, <2>6, <2>7, <2>8 DEF NutTask
  <1> QED BY <1>1, <1>2, <1>3, <1>4, <1>5, <1>6, <1>7, <1>8,
    <1>9, <1>10, <1>11, <1>12, <1>13, <1>14, <1>15 DEF Next, UsbTask, MainLoop

LEMMA HeardStep ==
  ASSUME Heard, Next
  PROVE  Heard'
  <1> USE DEF Heard, Statuses, Answers, usbVars, hidVars, nutVars, seenVars
  <1>1. CASE Plugged
    BY <1>1 DEF Plugged
  <1>2. CASE Unplugged
    BY <1>2 DEF Unplugged, Interrupted
  <1>3. CASE Silenced
    BY <1>3 DEF Silenced, Interrupted
  <1>4. CASE handle_new_device
    BY <1>4 DEF handle_new_device
  <1>5. CASE handle_device_gone
    BY <1>5 DEF handle_device_gone
  <1>6. CASE UpdateAway
    BY <1>6 DEF UpdateAway, Update, PowerCycled, PowerCycleFailed, ResetProtocol, Dangle
  <1>7. CASE UpdateUndetected
    BY <1>7 DEF UpdateUndetected, Update
  <1>8. CASE UpdateRead
    BY <1>8 DEF UpdateRead, ReadBegins, Update
  <1>9. CASE ReadDone
    BY <1>9 DEF ReadDone
  <1>10. CASE ReadFailed
    BY <1>10 DEF ReadFailed, ResetProtocol, Dangle
  <1>11. CASE Accepted
    BY <1>11 DEF Accepted, Put, Free
  <1>12. CASE ResetPressed
    BY <1>12 DEF ResetPressed, PowerCycled, PowerCycleFailed, ResetProtocol, Dangle
  <1>13. CASE Crash
    BY <1>13 DEF Crash
  <1>14. CASE Tick
    BY <1>14 DEF Tick
  <1>15. ASSUME NEW s \in Slots, Asked(s) \/ Closed(s) \/ NutTask(s) \/ Cleaned(s)
       PROVE  Heard'
    <2>1. CASE Asked(s)
      BY <2>1 DEF Asked
    <2>2. CASE Closed(s)
      BY <2>2 DEF Closed, Put
    <2>3. CASE StatusHandled(s)
      BY <2>3 DEF StatusHandled, Put
    <2>4. CASE StatusBuilt(s)
      BY <2>4 DEF StatusBuilt, Put
    <2>5. CASE CommandHandled(s)
      BY <2>5 DEF CommandHandled, Put
    <2>6. CASE CommandDone(s)
      BY <2>6 DEF CommandDone, Put
    <2>7. CASE Cleaned(s)
      BY <2>7 DEF Cleaned, Put
    <2>8. CASE StatusGone(s)
      BY <2>8 DEF StatusGone, Put
    <2> QED BY <1>15, <2>1, <2>2, <2>3, <2>4, <2>5, <2>6, <2>7, <2>8 DEF NutTask
  <1> QED BY <1>1, <1>2, <1>3, <1>4, <1>5, <1>6, <1>7, <1>8,
    <1>9, <1>10, <1>11, <1>12, <1>13, <1>14, <1>15 DEF Next, UsbTask, MainLoop

LEMMA PlacesStep ==
  ASSUME Places, Counts, Next
  PROVE  Places'
  <1> USE MonitorAssumption DEF Places, Counts, InHand, usbVars, hidVars, nutVars, seenVars
  <1>1. CASE Plugged
    BY <1>1 DEF Plugged
  <1>2. CASE Unplugged
    BY <1>2 DEF Unplugged, Interrupted
  <1>3. CASE Silenced
    BY <1>3 DEF Silenced, Interrupted
  <1>4. CASE handle_new_device
    BY <1>4 DEF handle_new_device
  <1>5. CASE handle_device_gone
    BY <1>5 DEF handle_device_gone
  <1>6. CASE UpdateAway
    BY <1>6 DEF UpdateAway, Update, PowerCycled, PowerCycleFailed, ResetProtocol, Dangle
  <1>7. CASE UpdateUndetected
    BY <1>7 DEF UpdateUndetected, Update
  <1>8. CASE UpdateRead
    BY <1>8 DEF UpdateRead, ReadBegins, Update
  <1>9. CASE ReadDone
    BY <1>9 DEF ReadDone
  <1>10. CASE ReadFailed
    BY <1>10 DEF ReadFailed, ResetProtocol, Dangle
  <1>11. CASE Accepted
    BY <1>11 DEF Accepted, Put, Free
  <1>12. CASE ResetPressed
    BY <1>12 DEF ResetPressed, PowerCycled, PowerCycleFailed, ResetProtocol, Dangle
  <1>13. CASE Crash
    BY <1>13 DEF Crash
  <1>14. CASE Tick
    BY <1>14 DEF Tick
  <1>15. ASSUME NEW s \in Slots, Asked(s) \/ Closed(s) \/ NutTask(s) \/ Cleaned(s)
       PROVE  Places'
    <2>1. CASE Asked(s)
      BY <2>1 DEF Asked
    <2>2. CASE Closed(s)
      BY <2>2 DEF Closed, Put
    <2>3. CASE StatusHandled(s)
      BY <2>3 DEF StatusHandled, Put
    <2>4. CASE StatusBuilt(s)
      BY <2>4 DEF StatusBuilt, Put
    <2>5. CASE CommandHandled(s)
      BY <2>5 DEF CommandHandled, Put
    <2>6. CASE CommandDone(s)
      BY <2>6 DEF CommandDone, Put
    <2>7. CASE Cleaned(s)
      BY <2>7 DEF Cleaned, Put
    <2>8. CASE StatusGone(s)
      BY <2>8 DEF StatusGone, Put
    <2> QED BY <1>15, <2>1, <2>2, <2>3, <2>4, <2>5, <2>6, <2>7, <2>8 DEF NutTask
  <1> QED BY <1>1, <1>2, <1>3, <1>4, <1>5, <1>6, <1>7, <1>8,
    <1>9, <1>10, <1>11, <1>12, <1>13, <1>14, <1>15 DEF Next, UsbTask, MainLoop

LEMMA ReadingStep ==
  ASSUME IInv, Next
  PROVE  ReadingSound'
  <1> USE DEF IInv, ReadingSound, AnnouncedSound, usbVars, hidVars, nutVars, seenVars
  <1>1. CASE Plugged
    BY <1>1 DEF Plugged
  <1>2. CASE Unplugged
    BY <1>2 DEF Unplugged, Interrupted
  <1>3. CASE Silenced
    BY <1>3 DEF Silenced, Interrupted
  <1>4. CASE handle_new_device
    BY <1>4 DEF handle_new_device
  <1>5. CASE handle_device_gone
    BY <1>5 DEF handle_device_gone
  <1>6. CASE UpdateAway
    BY <1>6 DEF UpdateAway, Update, PowerCycled, PowerCycleFailed, ResetProtocol, Dangle
  <1>7. CASE UpdateUndetected
    BY <1>7 DEF UpdateUndetected, Update
  <1>8. CASE UpdateRead
    BY <1>8 DEF UpdateRead, ReadBegins, Update
  <1>9. CASE ReadDone
    BY <1>9 DEF ReadDone
  <1>10. CASE ReadFailed
    BY <1>10 DEF ReadFailed, ResetProtocol, Dangle
  <1>11. CASE Accepted
    BY <1>11 DEF Accepted, Put, Free
  <1>12. CASE ResetPressed
    BY <1>12 DEF ResetPressed, PowerCycled, PowerCycleFailed, ResetProtocol, Dangle
  <1>13. CASE Crash
    BY <1>13 DEF Crash
  <1>14. CASE Tick
    BY <1>14 DEF Tick
  <1>15. ASSUME NEW s \in Slots, Asked(s) \/ Closed(s) \/ NutTask(s) \/ Cleaned(s)
       PROVE  ReadingSound'
    <2>1. CASE Asked(s)
      BY <2>1 DEF Asked
    <2>2. CASE Closed(s)
      BY <2>2 DEF Closed, Put
    <2>3. CASE StatusHandled(s)
      BY <2>3 DEF StatusHandled, Put
    <2>4. CASE StatusBuilt(s)
      BY <2>4 DEF StatusBuilt, Put
    <2>5. CASE CommandHandled(s)
      BY <2>5 DEF CommandHandled, Put
    <2>6. CASE CommandDone(s)
      BY <2>6 DEF CommandDone, Put
    <2>7. CASE Cleaned(s)
      BY <2>7 DEF Cleaned, Put
    <2>8. CASE StatusGone(s)
      BY <2>8 DEF StatusGone, Put
    <2> QED BY <1>15, <2>1, <2>2, <2>3, <2>4, <2>5, <2>6, <2>7, <2>8 DEF NutTask
  <1> QED BY <1>1, <1>2, <1>3, <1>4, <1>5, <1>6, <1>7, <1>8,
    <1>9, <1>10, <1>11, <1>12, <1>13, <1>14, <1>15 DEF Next, UsbTask, MainLoop

LEMMA DataStep ==
  ASSUME IInv, Next
  PROVE  (DataSound /\ StatusIsLastRead)'
  <1> USE MonitorAssumption DEF IInv, ReadingSound, DataSound, StatusIsLastRead, Statuses, usbVars, hidVars, nutVars, seenVars
  <1>1. CASE Plugged
    BY <1>1 DEF Plugged
  <1>2. CASE Unplugged
    BY <1>2 DEF Unplugged, Interrupted
  <1>3. CASE Silenced
    BY <1>3 DEF Silenced, Interrupted
  <1>4. CASE handle_new_device
    BY <1>4 DEF handle_new_device
  <1>5. CASE handle_device_gone
    BY <1>5 DEF handle_device_gone
  <1>6. CASE UpdateAway
    BY <1>6 DEF UpdateAway, Update, PowerCycled, PowerCycleFailed, ResetProtocol, Dangle
  <1>7. CASE UpdateUndetected
    BY <1>7 DEF UpdateUndetected, Update
  <1>8. CASE UpdateRead
    BY <1>8 DEF UpdateRead, ReadBegins, Update
  <1>9. CASE ReadDone
    BY <1>9 DEF ReadDone
  <1>10. CASE ReadFailed
    BY <1>10 DEF ReadFailed, ResetProtocol, Dangle
  <1>11. CASE Accepted
    BY <1>11 DEF Accepted, Put, Free
  <1>12. CASE ResetPressed
    BY <1>12 DEF ResetPressed, PowerCycled, PowerCycleFailed, ResetProtocol, Dangle
  <1>13. CASE Crash
    BY <1>13 DEF Crash
  <1>14. CASE Tick
    BY <1>14 DEF Tick
  <1>15. ASSUME NEW s \in Slots, Asked(s) \/ Closed(s) \/ NutTask(s) \/ Cleaned(s)
       PROVE  (DataSound /\ StatusIsLastRead)'
    <2>1. CASE Asked(s)
      BY <2>1 DEF Asked
    <2>2. CASE Closed(s)
      BY <2>2 DEF Closed, Put
    <2>3. CASE StatusHandled(s)
      BY <2>3 DEF StatusHandled, Put
    <2>4. CASE StatusBuilt(s)
      BY <2>4 DEF StatusBuilt, Put
    <2>5. CASE CommandHandled(s)
      BY <2>5 DEF CommandHandled, Put
    <2>6. CASE CommandDone(s)
      BY <2>6 DEF CommandDone, Put
    <2>7. CASE Cleaned(s)
      BY <2>7 DEF Cleaned, Put
    <2>8. CASE StatusGone(s)
      BY <2>8 DEF StatusGone, Put
    <2> QED BY <1>15, <2>1, <2>2, <2>3, <2>4, <2>5, <2>6, <2>7, <2>8 DEF NutTask
  <1> QED BY <1>1, <1>2, <1>3, <1>4, <1>5, <1>6, <1>7, <1>8,
    <1>9, <1>10, <1>11, <1>12, <1>13, <1>14, <1>15 DEF Next, UsbTask, MainLoop

LEMMA FailuresStep ==
  ASSUME IInv, Next
  PROVE  FailuresSound'
  <1> USE MonitorAssumption DEF IInv, FailuresSound, MonitorTypeOK, usbVars, hidVars, nutVars, seenVars
  <1>1. CASE Plugged
    BY <1>1 DEF Plugged
  <1>2. CASE Unplugged
    BY <1>2 DEF Unplugged, Interrupted
  <1>3. CASE Silenced
    BY <1>3 DEF Silenced, Interrupted
  <1>4. CASE handle_new_device
    BY <1>4 DEF handle_new_device
  <1>5. CASE handle_device_gone
    BY <1>5 DEF handle_device_gone
  <1>6. CASE UpdateAway
    BY <1>6, PowerCycleCounts DEF UpdateAway, Update
  <1>7. CASE UpdateUndetected
    <2>1. failures' = failures + 1 /\ failed' = (failures' > MaxFailures)
      BY <1>7 DEF UpdateUndetected
    <2>2. ~ (failures' > MaxFailures) => failures' <= MaxFailures
      BY <2>1
    <2>3. ~ failed' => ~ (failures' > MaxFailures)
      BY ONLY <2>1, Zenon
    <2> QED BY <2>2, <2>3
  <1>8. CASE UpdateRead
    BY <1>8 DEF UpdateRead, ReadBegins, Update
  <1>9. CASE ReadDone
    BY <1>9 DEF ReadDone
  <1>10. CASE ReadFailed
    BY <1>10 DEF ReadFailed, ResetProtocol, Dangle
  <1>11. CASE Accepted
    BY <1>11 DEF Accepted, Put, Free
  <1>12. CASE ResetPressed
    BY <1>12, PowerCycleCounts DEF ResetPressed
  <1>13. CASE Crash
    BY <1>13 DEF Crash
  <1>14. CASE Tick
    BY <1>14 DEF Tick
  <1>15. ASSUME NEW s \in Slots, Asked(s) \/ Closed(s) \/ NutTask(s) \/ Cleaned(s)
       PROVE  FailuresSound'
    <2>1. CASE Asked(s)
      BY <2>1 DEF Asked
    <2>2. CASE Closed(s)
      BY <2>2 DEF Closed, Put
    <2>3. CASE StatusHandled(s)
      BY <2>3 DEF StatusHandled, Put
    <2>4. CASE StatusBuilt(s)
      BY <2>4 DEF StatusBuilt, Put
    <2>5. CASE CommandHandled(s)
      BY <2>5 DEF CommandHandled, Put
    <2>6. CASE CommandDone(s)
      BY <2>6 DEF CommandDone, Put
    <2>7. CASE Cleaned(s)
      BY <2>7 DEF Cleaned, Put
    <2>8. CASE StatusGone(s)
      BY <2>8 DEF StatusGone, Put
    <2> QED BY <1>15, <2>1, <2>2, <2>3, <2>4, <2>5, <2>6, <2>7, <2>8 DEF NutTask
  <1> QED BY <1>1, <1>2, <1>3, <1>4, <1>5, <1>6, <1>7, <1>8,
    <1>9, <1>10, <1>11, <1>12, <1>13, <1>14, <1>15 DEF Next, UsbTask, MainLoop

LEMMA KeptStep ==
  ASSUME IInv, Next
  PROVE  KeptSound'
  <1> USE MonitorAssumption DEF IInv, MonitorTypeOK, ReadingSound, DataSound, KeptSound, AnnouncedSound, Statuses, usbVars, hidVars, nutVars, seenVars
  <1>1. CASE Plugged
    BY <1>1 DEF Plugged
  <1>2. CASE Unplugged
    BY <1>2 DEF Unplugged, Interrupted
  <1>3. CASE Silenced
    BY <1>3 DEF Silenced, Interrupted
  <1>4. CASE handle_new_device
    BY <1>4 DEF handle_new_device
  <1>5. CASE handle_device_gone
    BY <1>5 DEF handle_device_gone
  <1>6. CASE UpdateAway
    BY <1>6 DEF UpdateAway, Update, PowerCycled, PowerCycleFailed, ResetProtocol, Dangle
  <1>7. CASE UpdateUndetected
    BY <1>7 DEF UpdateUndetected, Update
  <1>8. CASE UpdateRead
    BY <1>8 DEF UpdateRead, ReadBegins, Update
  <1>9. CASE ReadDone
    <2>1. ~ lost' => connected'
      BY <1>9 DEF ReadDone
    <2>2. ~ failed' /\ age' = 0
      BY <1>9 DEF ReadDone
    <2> QED BY ONLY <2>1, <2>2, Zenon DEF KeptSound
  <1>10. CASE ReadFailed
    BY <1>10 DEF ReadFailed, ResetProtocol, Dangle
  <1>11. CASE Accepted
    BY <1>11 DEF Accepted, Put, Free
  <1>12. CASE ResetPressed
    BY <1>12 DEF ResetPressed, PowerCycled, PowerCycleFailed, ResetProtocol, Dangle
  <1>13. CASE Crash
    BY <1>13 DEF Crash
  <1>14. CASE Tick
    BY <1>14 DEF Tick
  <1>15. ASSUME NEW s \in Slots, Asked(s) \/ Closed(s) \/ NutTask(s) \/ Cleaned(s)
       PROVE  KeptSound'
    <2>1. CASE Asked(s)
      BY <2>1 DEF Asked
    <2>2. CASE Closed(s)
      BY <2>2 DEF Closed, Put
    <2>3. CASE StatusHandled(s)
      BY <2>3 DEF StatusHandled, Put
    <2>4. CASE StatusBuilt(s)
      BY <2>4 DEF StatusBuilt, Put
    <2>5. CASE CommandHandled(s)
      BY <2>5 DEF CommandHandled, Put
    <2>6. CASE CommandDone(s)
      BY <2>6 DEF CommandDone, Put
    <2>7. CASE Cleaned(s)
      BY <2>7 DEF Cleaned, Put
    <2>8. CASE StatusGone(s)
      BY <2>8 DEF StatusGone, Put
    <2> QED BY <1>15, <2>1, <2>2, <2>3, <2>4, <2>5, <2>6, <2>7, <2>8 DEF NutTask
  <1> QED BY <1>1, <1>2, <1>3, <1>4, <1>5, <1>6, <1>7, <1>8,
    <1>9, <1>10, <1>11, <1>12, <1>13, <1>14, <1>15 DEF Next, UsbTask, MainLoop

LEMMA FreshStep ==
  ASSUME IInv, Next
  PROVE  ConnectedIsFresh'
  <1> USE MonitorAssumption DEF IInv, MonitorTypeOK, ReadingSound, DataSound, KeptSound, StatusIsLastRead, ConnectedIsFresh, Statuses, usbVars, hidVars, nutVars, seenVars
  <1>1. CASE Plugged
    BY <1>1 DEF Plugged
  <1>2. CASE Unplugged
    BY <1>2 DEF Unplugged, Interrupted
  <1>3. CASE Silenced
    BY <1>3 DEF Silenced, Interrupted
  <1>4. CASE handle_new_device
    BY <1>4 DEF handle_new_device
  <1>5. CASE handle_device_gone
    BY <1>5 DEF handle_device_gone
  <1>6. CASE UpdateAway
    BY <1>6 DEF UpdateAway, Update, PowerCycled, PowerCycleFailed, ResetProtocol, Dangle
  <1>7. CASE UpdateUndetected
    BY <1>7 DEF UpdateUndetected, Update
  <1>8. CASE UpdateRead
    BY <1>8 DEF UpdateRead, ReadBegins, Update
  <1>9. CASE ReadDone
    BY <1>9 DEF ReadDone
  <1>10. CASE ReadFailed
    BY <1>10 DEF ReadFailed, ResetProtocol, Dangle
  <1>11. CASE Accepted
    BY <1>11 DEF Accepted, Put, Free
  <1>12. CASE ResetPressed
    BY <1>12 DEF ResetPressed, PowerCycled, PowerCycleFailed, ResetProtocol, Dangle
  <1>13. CASE Crash
    BY <1>13 DEF Crash
  <1>14. CASE Tick
    BY <1>14 DEF Tick
  <1>15. ASSUME NEW s \in Slots, Asked(s) \/ Closed(s) \/ NutTask(s) \/ Cleaned(s)
       PROVE  ConnectedIsFresh'
    <2>1. CASE Asked(s)
      BY <2>1 DEF Asked
    <2>2. CASE Closed(s)
      BY <2>2 DEF Closed, Put
    <2>3. CASE StatusHandled(s)
      BY <2>3 DEF StatusHandled, Put
    <2>4. CASE StatusBuilt(s)
      BY <2>4 DEF StatusBuilt, Put
    <2>5. CASE CommandHandled(s)
      BY <2>5 DEF CommandHandled, Put
    <2>6. CASE CommandDone(s)
      BY <2>6 DEF CommandDone, Put
    <2>7. CASE Cleaned(s)
      BY <2>7 DEF Cleaned, Put
    <2>8. CASE StatusGone(s)
      BY <2>8 DEF StatusGone, Put
    <2> QED BY <1>15, <2>1, <2>2, <2>3, <2>4, <2>5, <2>6, <2>7, <2>8 DEF NutTask
  <1> QED BY <1>1, <1>2, <1>3, <1>4, <1>5, <1>6, <1>7, <1>8,
    <1>9, <1>10, <1>11, <1>12, <1>13, <1>14, <1>15 DEF Next, UsbTask, MainLoop

LEMMA Invariance == Spec => []IInv
  <1>1. IInv /\ [Next]_vars => IInv'
    <2>1. ASSUME IInv, Next PROVE IInv'
      <3>1. MonitorTypeOK'
        <4>1. Flags /\ Counts /\ Heard /\ Places /\ ReadingSound /\ FailuresSound
          BY <2>1, TypeParts DEF IInv
        <4>2. Flags' /\ Counts' /\ Heard' /\ Places'
          BY <2>1, <4>1, FlagsStep, CountsStep, HeardStep, PlacesStep
        <4> QED BY <4>2 DEF MonitorTypeOK, Flags, Counts, Heard, Places
      <3>2. AnnouncedSound'
        BY <2>1, AnnouncedStep, TypeParts DEF IInv
      <3>3. ReadingSound' /\ DataSound' /\ StatusIsLastRead'
        BY <2>1, ReadingStep, DataStep
      <3>4. FailuresSound' /\ KeptSound' /\ ConnectedIsFresh'
        BY <2>1, FailuresStep, KeptStep, FreshStep
      <3> QED BY <3>1, <3>2, <3>3, <3>4 DEF IInv
    <2>2. ASSUME IInv, UNCHANGED vars PROVE IInv'
      BY <2>2
      DEF vars, usbVars, hidVars, nutVars, seenVars, IInv, MonitorTypeOK, AnnouncedSound, ReadingSound,
          DataSound, KeptSound, FailuresSound, StatusIsLastRead, ConnectedIsFresh, OnBus
    <2> QED BY <2>1, <2>2
  <1> QED BY InitInv, <1>1, PTL DEF Spec

(* Types and limits: the failures never run past their limit.              *)
THEOREM MonitorTypeCorrect == Spec => []MonitorTypeOK
  <1>1. IInv => MonitorTypeOK
    BY DEF IInv
  <1> QED BY <1>1, Invariance, PTL

(* No client ever hears the data of an unfinished read.                    *)
THEOREM StatusIsWhole == Spec => []StatusIsLastRead
  <1>1. IInv => StatusIsLastRead
    BY DEF IInv
  <1> QED BY <1>1, Invariance, PTL

(* An update that finds a device whose protocol is known ends every status *)
(* from before.                                                            *)
THEOREM StatusIsFresh == Spec => []ConnectedIsFresh
  <1>1. IInv => ConnectedIsFresh
    BY DEF IInv
  <1> QED BY <1>1, Invariance, PTL

=============================================================================
