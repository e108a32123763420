------------------------- MODULE SensorExchangeProofs -------------------------
(***************************************************************************)
(* What SensorExchange promises, for any ids and levels and any number of  *)
(* messages: the client's user has the sensors that were sent, and in each *)
(* the state that was last told of it.                                     *)
(***************************************************************************)
EXTENDS SensorExchange, TLAPS

-----------------------------------------------------------------------------
(* The invariant.                                                              *)

\* The sensors of the server's user; a dry contact is a bool.
Natives ==
  {s \in [type : SensorType, id : Ids, watch : Int, current : Int] :
     s.type = "sensorDryContact" => s.watch \in {0, 1} /\ s.current \in {0, 1}}

Protos ==
  [set : BOOLEAN, id : Ids \union {0}, type : {"stUnknown", "stDryContact", "stTemperature"},
   bytes : Seq(Int)]

Messages ==
  [code : {"ResponseCapabilities", "SensorActivated", "ServerRuntimeNotification"},
   caps : Seq(Protos), of : Seq(Natives)]

\* The sensors of the client's user.
Kinds == {"TypeDryContact", "TypeTemperature"}
States == [type : Kinds \union {"none"}, id : Ids \union {0}, value : Int]
Proxies == [type : Kinds, id : Ids, watch : Int, state : States]

ExchangeTypeOK ==
  /\ hardware \in Seq(Natives) /\ seen \in Seq(Natives) /\ active \subseteq Natives
  /\ toClient \in Seq(Messages)
  /\ m_sensors \in Seq(Proxies)

Distinct(sensors) ==
  \A i, j \in DOMAIN sensors : sensors[i].id = sensors[j].id => i = j

\* A sensor's id and kind are those of one of the server's user, for good.
From(hw, s) == \E i \in DOMAIN hw : hw[i].id = s.id /\ hw[i].type = s.type

AllFrom(hw, sensors) == \A i \in DOMAIN sensors : From(hw, sensors[i])

\* A message is made of what it is said to be of.
MadeOf(hw, m) ==
  /\ AllFrom(hw, m.of)
  /\ m.code = "ResponseCapabilities" =>
       Distinct(m.of) /\ m.caps = ProtoSensors(m.of) /\ IsInitialized(m.caps)
  /\ m.code = "SensorActivated" =>
       /\ Len(m.of) = 1 /\ m.of[1].type # "sensorUnknown"
       /\ m.caps = <<ActiveSensorFromNative(m.of[1])>>

Origins ==
  /\ Distinct(hardware) /\ Distinct(seen) /\ AllFrom(hardware, seen)
  /\ \A a \in active : From(hardware, a)
  /\ \A k \in DOMAIN toClient : MadeOf(hardware, toClient[k])

IInv == ExchangeTypeOK /\ Origins /\ ViewFaithful /\ StateFaithful

-----------------------------------------------------------------------------
(* The conversions, there and back.                                            *)

\* A configuration comes back as it was, with the kind the client has for it.
LEMMA SensorConverted ==
  ASSUME NEW s \in Natives, ProtoSensor(s).set
  PROVE  LET n == NativeSensor(ProtoSensor(s)) IN
           /\ n \in Proxies /\ n # NullSensor
           /\ SameKind(s.type, n.type)
           /\ n.id = s.id /\ n.watch = s.watch /\ n.state = NoState
<1>1. CASE s.type = "sensorTemperature"
  <2>1. NativeSensor(ProtoSensor(s))
          = [type |-> "TypeTemperature", id |-> s.id, watch |-> s.watch, state |-> NoState]
    BY <1>1 DEF Natives, ProtoSensor, NativeSensor, Configured, Parsed
  <2>. QED
    BY <1>1, <2>1 DEF Natives, NullSensor, NoState, Proxies, Kinds, States, SameKind
<1>2. CASE s.type = "sensorDryContact"
  <2>1. NativeSensor(ProtoSensor(s))
          = [type |-> "TypeDryContact", id |-> s.id, watch |-> s.watch, state |-> NoState]
    BY <1>2 DEF Natives, ProtoSensor, NativeSensor, Configured, Parsed, ToBool
  <2>. QED
    BY <1>2, <2>1 DEF Natives, NullSensor, NoState, Proxies, Kinds, States, SameKind
<1>3. CASE s.type = "sensorUnknown"
  BY <1>3 DEF ProtoSensor, NotInitialized
<1>. QED
  BY <1>1, <1>2, <1>3 DEF Natives, SensorType

\* Valid capabilities come back whole and in order.
LEMMA CapsConverted ==
  ASSUME NEW of \in Seq(Natives), IsInitialized(ProtoSensors(of))
  PROVE  LET v == FromCaps(ProtoSensors(of)) IN
           /\ v \in Seq(Proxies) /\ Len(v) = Len(of)
           /\ \A i \in DOMAIN of :
                /\ SameKind(of[i].type, v[i].type)
                /\ v[i].id = of[i].id /\ v[i].watch = of[i].watch /\ v[i].state = NoState
<1>. DEFINE caps == ProtoSensors(of)
            v == [i \in DOMAIN caps |-> NativeSensor(caps[i])]
<1>1. DOMAIN caps = 1 .. Len(of) /\ \A i \in 1 .. Len(of) : caps[i] = ProtoSensor(of[i])
  BY DEF ProtoSensors
<1>2. ASSUME NEW i \in 1 .. Len(of)
      PROVE  /\ v[i] \in Proxies /\ v[i] # NullSensor
             /\ SameKind(of[i].type, v[i].type)
             /\ v[i].id = of[i].id /\ v[i].watch = of[i].watch /\ v[i].state = NoState
  <2>1. of[i] \in Natives
    OBVIOUS
  <2>2. caps[i].set
    BY <1>1 DEF IsInitialized
  <2>3. v[i] = NativeSensor(ProtoSensor(of[i]))
    BY <1>1
  <2>. QED
    BY <1>1, <2>1, <2>2, <2>3, SensorConverted
<1>3. v \in Seq(Proxies) /\ Len(v) = Len(of)
  <2>1. v \in [1 .. Len(of) -> Proxies]
    BY <1>1, <1>2
  <2>. QED
    BY <2>1
<1>4. NullSensor \notin Range(v)
  BY <1>1, <1>2 DEF Range
<1>5. FromCaps(caps) = v
  BY <1>4 DEF FromCaps
<1>. QED
  BY <1>2, <1>3, <1>5

\* An active sensor comes back as its state.
LEMMA StateConverted ==
  ASSUME NEW s \in Natives, s.type # "sensorUnknown"
  PROVE  LET state == NativeActivatedSensor(ActiveSensorFromNative(s)) IN
           /\ state \in States /\ state # NoState
           /\ SameKind(s.type, state.type)
           /\ state.id = s.id /\ state.value = s.current
<1>1. CASE s.type = "sensorTemperature"
  BY <1>1 DEF Natives, ActiveSensorFromNative, NativeActivatedSensor, Configured, NoState,
              Kinds, States, SameKind
<1>2. CASE s.type = "sensorDryContact"
  BY <1>2 DEF Natives, ActiveSensorFromNative, NativeActivatedSensor, Configured, NoState,
              Kinds, States, SameKind, ToBool
<1>. QED
  BY <1>1, <1>2 DEF Natives, SensorType

-----------------------------------------------------------------------------
(* The server's user.                                                          *)

\* Sensors are only added, and keep their ids and kinds, so that what was said of them
\* holds of them still.
LEMMA StillFrom ==
  ASSUME NEW hw, NEW hw2,
         \A i \in DOMAIN hw : /\ i \in DOMAIN hw2
                              /\ hw2[i].id = hw[i].id /\ hw2[i].type = hw[i].type
  PROVE  /\ \A s : From(hw, s) => From(hw2, s)
         /\ \A m : MadeOf(hw, m) => MadeOf(hw2, m)
<1>1. ASSUME NEW s, From(hw, s) PROVE From(hw2, s)
  BY <1>1 DEF From
<1>. QED
  BY <1>1 DEF MadeOf, AllFrom

\* What the client's user has, as long as none of its callbacks runs.
LEMMA ViewStays ==
  ASSUME ViewFaithful, StateFaithful, UNCHANGED <<m_sensors, seen, active>>
  PROVE  ViewFaithful' /\ StateFaithful'
<1>1. ViewFaithful'
  BY DEF ViewFaithful
<1>2. StateFaithful'
  BY DEF StateFaithful
<1>. QED
  BY <1>1, <1>2

LEMMA AddStep == ASSUME IInv, AddSensor PROVE IInv'
<1>1. PICK type \in SensorType, id \in Ids :
        /\ \A i \in DOMAIN hardware : hardware[i].id # id
        /\ hardware' = Append(hardware, NewSensor(type, id))
        /\ UNCHANGED <<toClient, m_sensors, seen, active>>
  BY DEF AddSensor
<1>2. NewSensor(type, id) \in Natives /\ NewSensor(type, id).id = id
  BY DEF NewSensor, Natives
<1>3. /\ hardware \in Seq(Natives)
      /\ hardware' \in Seq(Natives)
      /\ Len(hardware') = Len(hardware) + 1
      /\ hardware'[Len(hardware) + 1] = NewSensor(type, id)
      /\ \A i \in 1 .. Len(hardware) : hardware'[i] = hardware[i]
  BY <1>1, <1>2 DEF IInv, ExchangeTypeOK
<1>4. /\ \A s : From(hardware, s) => From(hardware', s)
      /\ \A m : MadeOf(hardware, m) => MadeOf(hardware', m)
  BY <1>3, StillFrom
<1>5. Distinct(hardware')
  BY <1>1, <1>2, <1>3 DEF Distinct, IInv, Origins
<1>6. Origins'
  BY <1>1, <1>4, <1>5 DEF IInv, Origins, AllFrom
<1>7. ExchangeTypeOK'
  BY <1>1, <1>3 DEF IInv, ExchangeTypeOK
<1>. QED
  BY <1>1, <1>6, <1>7, ViewStays DEF IInv

LEMMA ChangeStep == ASSUME IInv, NEW i \in DOMAIN hardware, Change(i) PROVE IInv'
<1>1. PICK v \in Values(hardware[i].type) :
        \/ hardware' = [hardware EXCEPT ![i].watch = v]
        \/ hardware' = [hardware EXCEPT ![i].current = v]
  BY DEF Change
<1>2. UNCHANGED <<toClient, m_sensors, seen, active>>
  BY DEF Change
<1>3. hardware \in Seq(Natives) /\ hardware[i] \in Natives
  BY DEF IInv, ExchangeTypeOK
<1>4. v \in Int /\ (hardware[i].type = "sensorDryContact" => v \in {0, 1})
  BY <1>3, BoundAssumption DEF Values, Natives, SensorType
<1>5. PICK changed \in Natives :
        /\ hardware' = [hardware EXCEPT ![i] = changed]
        /\ changed.id = hardware[i].id /\ changed.type = hardware[i].type
  <2>1. CASE hardware' = [hardware EXCEPT ![i].watch = v]
    <3>. DEFINE s == [hardware[i] EXCEPT !.watch = v]
    <3>1. s \in Natives /\ s.id = hardware[i].id /\ s.type = hardware[i].type
      BY <1>3, <1>4 DEF Natives
    <3>. QED
      BY <2>1, <3>1
  <2>2. CASE hardware' = [hardware EXCEPT ![i].current = v]
    <3>. DEFINE s == [hardware[i] EXCEPT !.current = v]
    <3>1. s \in Natives /\ s.id = hardware[i].id /\ s.type = hardware[i].type
      BY <1>3, <1>4 DEF Natives
    <3>. QED
      BY <2>2, <3>1
  <2>. QED
    BY <1>1, <2>1, <2>2
<1>6. /\ hardware' \in Seq(Natives) /\ DOMAIN hardware' = DOMAIN hardware
      /\ \A j \in DOMAIN hardware : /\ hardware'[j].id = hardware[j].id
                                    /\ hardware'[j].type = hardware[j].type
  BY <1>3, <1>5
<1>7. /\ \A s : From(hardware, s) => From(hardware', s)
      /\ \A m : MadeOf(hardware, m) => MadeOf(hardware', m)
  BY <1>6, StillFrom
<1>8. Origins'
  BY <1>2, <1>6, <1>7 DEF IInv, Origins, AllFrom, Distinct
<1>9. ExchangeTypeOK'
  BY <1>2, <1>6 DEF IInv, ExchangeTypeOK
<1>. QED
  BY <1>2, <1>8, <1>9, ViewStays DEF IInv

-----------------------------------------------------------------------------
(* Messages.                                                                   *)

LEMMA ProtoTypes ==
  ASSUME NEW s \in Natives
  PROVE  /\ ProtoSensor(s) \in Protos /\ ActiveSensorFromNative(s) \in Protos
         /\ ActiveSensorFromNative(s).set => s.type # "sensorUnknown"
BY DEF Natives, SensorType, Protos, ProtoSensor, ActiveSensorFromNative, Configured,
       NotInitialized

\* A message that is made of what it says keeps the invariant when it is sent.
LEMMA SendKeeps ==
  ASSUME IInv, NEW m \in Messages, MadeOf(hardware, m), Send(m)
  PROVE  IInv'
<1>1. toClient' = Append(toClient, m) /\ UNCHANGED <<hardware, m_sensors, seen, active>>
  BY DEF Send
<1>2. /\ toClient \in Seq(Messages) /\ toClient' \in Seq(Messages)
      /\ Len(toClient') = Len(toClient) + 1
      /\ toClient'[Len(toClient) + 1] = m
      /\ \A k \in 1 .. Len(toClient) : toClient'[k] = toClient[k]
  BY <1>1 DEF IInv, ExchangeTypeOK
<1>3. \A k \in DOMAIN toClient' : MadeOf(hardware, toClient'[k])
  BY <1>2 DEF IInv, Origins
<1>4. ExchangeTypeOK'
  BY <1>1, <1>2 DEF IInv, ExchangeTypeOK
<1>5. Origins'
  BY <1>1, <1>3 DEF IInv, Origins
<1>. QED
  BY <1>1, <1>4, <1>5, ViewStays DEF IInv

LEMMA SendCapabilitiesStep == ASSUME IInv, SendCapabilities PROVE IInv'
<1>. DEFINE caps == ProtoSensors(hardware)
<1>1. hardware \in Seq(Natives) /\ Distinct(hardware)
  BY DEF IInv, ExchangeTypeOK, Origins
<1>2. AllFrom(hardware, hardware)
  BY DEF AllFrom, From
<1>3. caps \in Seq(Protos)
  <2>1. caps \in [1 .. Len(hardware) -> Protos]
    BY <1>1, ProtoTypes DEF ProtoSensors
  <2>. QED
    BY <1>1, <2>1
<1>4. CASE IsInitialized(caps)
  <2>1. Send(Capabilities(caps, hardware))
    BY <1>4 DEF SendCapabilities
  <2>2. Capabilities(caps, hardware) \in Messages
    BY <1>1, <1>3 DEF Capabilities, Messages
  <2>3. MadeOf(hardware, Capabilities(caps, hardware))
    BY <1>1, <1>2, <1>4 DEF MadeOf, Capabilities
  <2>. QED
    BY <2>1, <2>2, <2>3, SendKeeps
<1>5. CASE ~IsInitialized(caps)
  <2>1. Send(Refused(hardware))
    BY <1>5 DEF SendCapabilities
  <2>2. Refused(hardware) \in Messages
    BY <1>1 DEF Refused, Messages
  <2>3. MadeOf(hardware, Refused(hardware))
    BY <1>2 DEF MadeOf, Refused
  <2>. QED
    BY <2>1, <2>2, <2>3, SendKeeps
<1>. QED
  BY <1>4, <1>5

LEMMA SendActivatedStep ==
  ASSUME IInv, NEW i \in DOMAIN hardware, SendActivatedSensorState(i)
  PROVE  IInv'
<1>. DEFINE s == hardware[i]
            p == ActiveSensorFromNative(s)
<1>1. s \in Natives
  BY DEF IInv, ExchangeTypeOK
<1>2. p \in Protos /\ (p.set => s.type # "sensorUnknown")
  BY <1>1, ProtoTypes
<1>3. AllFrom(hardware, <<s>>)
  BY DEF AllFrom, From
<1>4. CASE p.set
  <2>1. Send(Activated(p, s))
    BY <1>4 DEF SendActivatedSensorState
  <2>2. Activated(p, s) \in Messages
    BY <1>1, <1>2 DEF Activated, Messages
  <2>3. MadeOf(hardware, Activated(p, s))
    BY <1>2, <1>3, <1>4 DEF MadeOf, Activated
  <2>. QED
    BY <2>1, <2>2, <2>3, SendKeeps
<1>5. CASE ~p.set
  <2>1. Send(Refused(<<s>>))
    BY <1>5 DEF SendActivatedSensorState
  <2>2. Refused(<<s>>) \in Messages
    BY <1>1 DEF Refused, Messages
  <2>3. MadeOf(hardware, Refused(<<s>>))
    BY <1>3 DEF MadeOf, Refused
  <2>. QED
    BY <2>1, <2>2, <2>3, SendKeeps
<1>. QED
  BY <1>4, <1>5

-----------------------------------------------------------------------------
(* The client's user.                                                          *)

\* The first message is what it says, and so are the others.
LEMMA HeadOfQueue ==
  ASSUME IInv, toClient # <<>>, toClient' = Tail(toClient)
  PROVE  /\ Head(toClient) \in Messages /\ MadeOf(hardware, Head(toClient))
         /\ toClient' \in Seq(Messages)
         /\ \A k \in DOMAIN toClient' : MadeOf(hardware, toClient'[k])
<1>1. toClient \in Seq(Messages) /\ Len(toClient) >= 1 /\ Head(toClient) = toClient[1]
  BY DEF IInv, ExchangeTypeOK
<1>2. /\ toClient' \in Seq(Messages) /\ Len(toClient') = Len(toClient) - 1
      /\ \A k \in 1 .. Len(toClient') : toClient'[k] = toClient[k + 1]
  BY <1>1
<1>3. \A k \in 1 .. Len(toClient) : MadeOf(hardware, toClient[k])
  BY <1>1 DEF IInv, Origins
<1>. QED
  BY <1>1, <1>2, <1>3

LEMMA ResultStep == ASSUME IInv, OnServerRuntimeNotification PROVE IInv'
<1>1. toClient # <<>> /\ toClient' = Tail(toClient)
      /\ UNCHANGED <<hardware, m_sensors, seen, active>>
  BY DEF OnServerRuntimeNotification
<1>2. ExchangeTypeOK' /\ Origins'
  BY <1>1, HeadOfQueue DEF IInv, ExchangeTypeOK, Origins
<1>. QED
  BY <1>1, <1>2, ViewStays DEF IInv

LEMMA CapabilitiesStep == ASSUME IInv, OnCapabilitiesResponse PROVE IInv'
<1>. DEFINE m == Head(toClient)
<1>1. /\ toClient # <<>> /\ m.code = "ResponseCapabilities"
      /\ m_sensors' = FromCaps(m.caps) /\ seen' = m.of /\ active' = {}
      /\ toClient' = Tail(toClient) /\ UNCHANGED hardware
  BY DEF OnCapabilitiesResponse
<1>2. /\ m \in Messages /\ MadeOf(hardware, m) /\ toClient' \in Seq(Messages)
      /\ \A k \in DOMAIN toClient' : MadeOf(hardware, toClient'[k])
  BY <1>1, HeadOfQueue
<1>3. /\ m.of \in Seq(Natives) /\ Distinct(m.of) /\ AllFrom(hardware, m.of)
      /\ m.caps = ProtoSensors(m.of) /\ IsInitialized(ProtoSensors(m.of))
  BY <1>1, <1>2 DEF MadeOf, Messages
<1>4. /\ m_sensors' \in Seq(Proxies) /\ Len(m_sensors') = Len(seen')
      /\ \A i \in DOMAIN seen' :
           /\ SameKind(seen'[i].type, m_sensors'[i].type)
           /\ m_sensors'[i].id = seen'[i].id /\ m_sensors'[i].watch = seen'[i].watch
           /\ m_sensors'[i].state = NoState
  BY <1>1, <1>3, CapsConverted
<1>5. ExchangeTypeOK'
  BY <1>1, <1>2, <1>3, <1>4 DEF IInv, ExchangeTypeOK
<1>6. Origins'
  BY <1>1, <1>2, <1>3 DEF IInv, Origins
<1>7. ViewFaithful'
  BY <1>4 DEF ViewFaithful
<1>8. StateFaithful'
  <2>1. DOMAIN m_sensors' = DOMAIN seen'
    BY <1>4, <1>5 DEF ExchangeTypeOK
  <2>. QED
    BY <1>1, <1>4, <2>1 DEF StateFaithful
<1>. QED
  BY <1>5, <1>6, <1>7, <1>8 DEF IInv

\* The sensor of a state is the one of its id, of which there is one, and of its kind,
\* which is the one that id has had all along.
LEMMA StateFinds ==
  ASSUME IInv, NEW s \in Natives, From(hardware, s), NEW i \in DOMAIN m_sensors
  PROVE  /\ i \in SensorOf(m_sensors, s.id) <=> m_sensors[i].id = s.id
         /\ m_sensors[i].id = s.id => SameKind(s.type, m_sensors[i].type)
<1>1. /\ m_sensors \in Seq(Proxies) /\ seen \in Seq(Natives)
      /\ DOMAIN m_sensors = 1 .. Len(seen) /\ DOMAIN seen = 1 .. Len(seen)
  BY DEF IInv, ExchangeTypeOK, ViewFaithful
<1>2. \A j \in DOMAIN m_sensors : /\ m_sensors[j].id = seen[j].id
                                 /\ SameKind(seen[j].type, m_sensors[j].type)
  BY <1>1 DEF IInv, ViewFaithful
<1>3. \A j \in DOMAIN m_sensors : m_sensors[j].id = m_sensors[i].id => j = i
  BY <1>1, <1>2 DEF IInv, Origins, Distinct
<1>4. \A j \in 1 .. i - 1 : j \in DOMAIN m_sensors /\ j # i
  BY <1>1
<1>5. i \in SensorOf(m_sensors, s.id) <=> m_sensors[i].id = s.id
  BY <1>3, <1>4 DEF SensorOf
<1>6. ASSUME m_sensors[i].id = s.id PROVE SameKind(s.type, m_sensors[i].type)
  <2>1. From(hardware, seen[i]) /\ seen[i].id = s.id
    BY <1>1, <1>2, <1>6 DEF IInv, Origins, AllFrom
  <2>2. seen[i].type = s.type
    BY <2>1 DEF From, IInv, Origins, Distinct
  <2>. QED
    BY <1>2, <2>2
<1>. QED
  BY <1>5, <1>6

LEMMA ActivatedStep == ASSUME IInv, OnSensorActivatedResponse PROVE IInv'
<1>. DEFINE m == Head(toClient)
            s == m.of[1]
            state == NativeActivatedSensor(ActiveSensorFromNative(s))
<1>1. /\ toClient # <<>> /\ m.code = "SensorActivated"
      /\ m_sensors' = OnActivatedSensor(m_sensors, NativeActivatedSensor(m.caps[1]))
      /\ active' = {a \in active : a.id # s.id} \union {s}
      /\ toClient' = Tail(toClient) /\ UNCHANGED <<hardware, seen>>
  BY DEF OnSensorActivatedResponse
<1>2. /\ m \in Messages /\ MadeOf(hardware, m) /\ toClient' \in Seq(Messages)
      /\ \A k \in DOMAIN toClient' : MadeOf(hardware, toClient'[k])
  BY <1>1, HeadOfQueue
<1>3. /\ s \in Natives /\ From(hardware, s) /\ s.type # "sensorUnknown"
      /\ m.caps[1] = ActiveSensorFromNative(s)
  <2>1. m.of \in Seq(Natives) /\ Len(m.of) = 1 /\ AllFrom(hardware, m.of)
        /\ s.type # "sensorUnknown" /\ m.caps = <<ActiveSensorFromNative(s)>>
    BY <1>1, <1>2 DEF MadeOf, Messages
  <2>. QED
    BY <2>1 DEF AllFrom
<1>4. /\ state \in States /\ state # NoState /\ SameKind(s.type, state.type)
      /\ state.id = s.id /\ state.value = s.current
  BY <1>3, StateConverted
<1>5. m_sensors \in Seq(Proxies) /\ DOMAIN m_sensors' = DOMAIN m_sensors
  BY <1>1 DEF IInv, ExchangeTypeOK, OnActivatedSensor
<1>6. ASSUME NEW i \in DOMAIN m_sensors
      PROVE  m_sensors'[i] = IF m_sensors[i].id = s.id THEN [m_sensors[i] EXCEPT !.state = state]
                             ELSE m_sensors[i]
  <2>1. m_sensors'[i] = IF i \in SensorOf(m_sensors, s.id) THEN UpdateState(m_sensors[i], state)
                        ELSE m_sensors[i]
    BY <1>1, <1>3, <1>4 DEF OnActivatedSensor
  <2>. QED
    BY <1>3, <1>4, <2>1, StateFinds DEF UpdateState
<1>7. ASSUME NEW i \in DOMAIN m_sensors
      PROVE  /\ m_sensors'[i] \in Proxies
             /\ m_sensors'[i].id = m_sensors[i].id
             /\ m_sensors'[i].type = m_sensors[i].type
             /\ m_sensors'[i].watch = m_sensors[i].watch
             /\ m_sensors'[i].state = IF m_sensors[i].id = s.id THEN state
                                      ELSE m_sensors[i].state
  <2>1. m_sensors[i] \in Proxies
    BY <1>5
  <2>. QED
    BY <1>4, <1>6, <2>1 DEF Proxies
<1>8. m_sensors' \in Seq(Proxies) /\ Len(m_sensors') = Len(m_sensors)
  <2>1. m_sensors' \in [1 .. Len(m_sensors) -> Proxies]
    BY <1>1, <1>5, <1>7 DEF OnActivatedSensor
  <2>. QED
    BY <1>5, <2>1
<1>9. ExchangeTypeOK'
  BY <1>1, <1>2, <1>3, <1>8 DEF IInv, ExchangeTypeOK
<1>10. Origins'
  BY <1>1, <1>2, <1>3 DEF IInv, Origins
<1>11. ViewFaithful'
  <2>1. DOMAIN seen = DOMAIN m_sensors
    BY <1>5 DEF IInv, ExchangeTypeOK, ViewFaithful
  <2>2. seen' = seen /\ Len(seen) = Len(m_sensors)
    BY <1>1 DEF IInv, ViewFaithful
  <2>. QED
    BY <1>7, <1>8, <2>1, <2>2 DEF IInv, ViewFaithful
<1>12. StateFaithful'
  <2>1. ASSUME NEW i \in DOMAIN m_sensors, m_sensors[i].id = s.id
        PROVE  /\ {a \in active' : a.id = m_sensors'[i].id} = {s}
               /\ m_sensors'[i].state.type = m_sensors'[i].type
               /\ m_sensors'[i].state.id = s.id
               /\ m_sensors'[i].state.value = s.current
    <3>1. {a \in active' : a.id = m_sensors'[i].id} = {s}
      BY <1>1, <1>7, <2>1
    <3>2. state.type = m_sensors[i].type
      BY <1>3, <1>4, <2>1, StateFinds DEF SameKind
    <3>. QED
      BY <1>4, <1>7, <2>1, <3>1, <3>2
  <2>2. ASSUME NEW i \in DOMAIN m_sensors, m_sensors[i].id # s.id
        PROVE  /\ {a \in active' : a.id = m_sensors'[i].id}
                    = {a \in active : a.id = m_sensors[i].id}
               /\ m_sensors'[i].state = m_sensors[i].state
               /\ m_sensors'[i].type = m_sensors[i].type
    BY <1>1, <1>7, <2>2
  <2>. SUFFICES ASSUME NEW i \in DOMAIN m_sensors
                PROVE  LET told == {a \in active' : a.id = m_sensors'[i].id}
                           entered == m_sensors'[i].state
                       IN  IF told = {} THEN entered = NoState
                           ELSE \A a \in told : /\ entered.type = m_sensors'[i].type
                                                /\ entered.id = a.id
                                                /\ entered.value = a.current
    BY <1>5 DEF StateFaithful
  <2>3. CASE m_sensors[i].id = s.id
    BY <2>1, <2>3
  <2>4. CASE m_sensors[i].id # s.id
    BY <2>2, <2>4 DEF IInv, StateFaithful
  <2>. QED
    BY <2>3, <2>4
<1>. QED
  BY <1>9, <1>10, <1>11, <1>12 DEF IInv

-----------------------------------------------------------------------------
(* The theorems.                                                               *)

LEMMA Invariance == Spec => []IInv
<1>1. Init => IInv
  BY DEF Init, IInv, ExchangeTypeOK, Origins, Distinct, AllFrom, ViewFaithful, StateFaithful
<1>2. IInv /\ [Next]_vars => IInv'
  <2>. SUFFICES ASSUME IInv, [Next]_vars PROVE IInv'
    OBVIOUS
  <2>1. CASE UNCHANGED vars
    <3>1. ExchangeTypeOK' /\ Origins'
      BY <2>1 DEF vars, IInv, ExchangeTypeOK, Origins
    <3>. QED
      BY <2>1, <3>1, ViewStays DEF vars, IInv
  <2>. QED
    BY <2>1, AddStep, ChangeStep, SendActivatedStep, SendCapabilitiesStep, CapabilitiesStep,
       ActivatedStep, ResultStep DEF Next
<1>. QED
  BY <1>1, <1>2, PTL DEF Spec

\* The sensors of the client's user are those that the server's user has sent last, in
\* order, with their ids, kinds and what they watch for (cserver.cpp, protoSensors;
\* dataconverter.cpp, fromCaps and nativeSensor).
THEOREM SensorsArriveAsSent == Spec => []ViewFaithful
<1>1. IInv => ViewFaithful
  BY DEF IInv
<1>. QED
  BY <1>1, Invariance, PTL

\* The state in each is the value that the server last told of it, and of its kind
\* (cserver.cpp, activeSensorFromNative; dataconverter.cpp, nativeActivatedSensor;
\* interop_sensors.cpp, updateState, which does not look at the kind).
THEOREM StatesArriveAsSent == Spec => []StateFaithful
<1>1. IInv => StateFaithful
  BY DEF IInv
<1>. QED
  BY <1>1, Invariance, PTL
=============================================================================
