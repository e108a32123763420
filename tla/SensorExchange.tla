---------------------------- MODULE SensorExchange ----------------------------
(***************************************************************************)
(* Sensors on their way from the server's user to the client's: the C      *)
(* structures of cserver/api_sensors.h, the messages of sensors.proto, and *)
(* the classes of client/hdr/interop_sensors.h, with the conversions of    *)
(* CServer (cserver/cserver.cpp) and DataConverter (client/src/            *)
(* dataconverter.cpp) between them.                                        *)
(*                                                                         *)
(* The server's user adds, configures and measures sensors and sends all   *)
(* of them (send_capabilities) or one that is active (send_activesensor)   *)
(* as examples/native_cserver/main.cpp does; the client's user keeps the   *)
(* sensors it was last given and enters the states it is given into them   *)
(* (examples/native_client/emserveradapterqt.cpp).                         *)
(*                                                                         *)
(* A bool is 0 or 1.  protobuf writes both kinds of configuration as field *)
(* 1, a varint: bytes are <<>> or the one number in them, and the bytes of *)
(* one kind do parse as the other.                                         *)
(***************************************************************************)
EXTENDS Integers, Sequences, SequencesExt

CONSTANTS Ids,          \* bound: the ids of sensors
          Levels,       \* bound: the temperatures, as levels and as values
          MaxSends,     \* bound: messages the server's user sends
          MaxUnderWay   \* bound: messages under way at a time

ASSUME BoundAssumption == Levels \subseteq Int /\ {MaxSends, MaxUnderWay} \subseteq Nat

VARIABLES hardware,     \* Sensors::hardware of the server's user
          toClient,     \* messages under way
          m_sensors,    \* the sensors the client's user was last given
          seen,         \* history: the hardware they were made of
          active,       \* history: the active sensors whose state has arrived since
          sends

vars == <<hardware, toClient, m_sensors, seen, active, sends>>

\* SensorType of the C interface.
SensorType == {"sensorUnknown", "sensorDryContact", "sensorTemperature"}

Values(type) == CASE type = "sensorTemperature" -> Levels
                  [] type = "sensorDryContact"  -> {0, 1}
                  [] OTHER                      -> {0}

ToBool(n) == IF n = 0 THEN 0 ELSE 1

-----------------------------------------------------------------------------
(* The server's conversions.                                                   *)

\* A message without its required fields.
NotInitialized == [set |-> FALSE, id |-> 0, type |-> "stUnknown", bytes |-> <<>>]

Configured(id, type, bytes) == [set |-> TRUE, id |-> id, type |-> type, bytes |-> bytes]

\* Mutant: the two kinds of sensors are written as one.
OneKind(s) ==
  IF s.type = "sensorUnknown" THEN NotInitialized
  ELSE Configured(s.id, "stDryContact", <<s.watch>>)

\* protoSensors, for one sensor: an entry is added for it, whatever its type.
ProtoSensor(s) ==
  CASE s.type = "sensorTemperature" -> Configured(s.id, "stTemperature", <<s.watch>>)
    [] s.type = "sensorDryContact"  -> Configured(s.id, "stDryContact", <<s.watch>>)
    [] OTHER                        -> NotInitialized

ProtoSensors(sensors) == [i \in DOMAIN sensors |-> ProtoSensor(sensors[i])]

ActiveSensorFromNative(s) ==
  CASE s.type = "sensorTemperature" -> Configured(s.id, "stTemperature", <<s.current>>)
    [] s.type = "sensorDryContact"  -> Configured(s.id, "stDryContact", <<s.current>>)
    [] OTHER                        -> NotInitialized

\* Capabilities::IsInitialized: every entry is.
IsInitialized(caps) == \A i \in DOMAIN caps : caps[i].set

-----------------------------------------------------------------------------
(* The client's conversions.                                                   *)

NoState == [type |-> "none", id |-> 0, value |-> 0]
NullSensor == [type |-> "null", id |-> 0, watch |-> 0, state |-> NoState]

\* ParseFromString fails on bytes without the required field, and leaves its default.
Parsed(bytes, default) == IF bytes = <<>> THEN default ELSE bytes[1]

\* A result that is not parsed is not noticed: the sensor has the default.
NativeSensor(p) ==
  CASE p.type = "stDryContact" ->
         [type |-> "TypeDryContact", id |-> p.id, watch |-> ToBool(Parsed(p.bytes, 1)),
          state |-> NoState]
    [] p.type = "stTemperature" ->
         [type |-> "TypeTemperature", id |-> p.id, watch |-> Parsed(p.bytes, 0),
          state |-> NoState]
    [] OTHER -> NullSensor

Known(sensors) == SelectSeq(sensors, LAMBDA s : s # NullSensor)

\* Sensors of no known type are left out.  (Known returns a sequence without them as it
\* is; the case stands apart because no prover looks into SelectSeq.)
FromCaps(caps) ==
  LET sensors == [i \in DOMAIN caps |-> NativeSensor(caps[i])]
  IN  IF NullSensor \in Range(sensors) THEN Known(sensors) ELSE sensors

\* A state that is not parsed is a null pointer.
NativeActivatedSensor(p) ==
  CASE p.bytes = <<>> -> NoState
    [] p.type = "stDryContact" ->
         [type |-> "TypeDryContact", id |-> p.id, value |-> ToBool(p.bytes[1])]
    [] p.type = "stTemperature" ->
         [type |-> "TypeTemperature", id |-> p.id, value |-> p.bytes[1]]
    [] OTHER -> NoState

\* Mutant: a sensor's place is taken for its id.
SensorAt(sensors, id) == DOMAIN sensors \intersect {id}

\* Where the user's search finds the sensor of an id, if there is one.
SensorOf(sensors, id) ==
  {i \in DOMAIN sensors : sensors[i].id = id /\ \A j \in 1 .. i - 1 : sensors[j].id # id}

\* updateState: the state is entered whatever its own type, unless it is null.
UpdateState(sensor, state) == IF state = NoState THEN sensor ELSE [sensor EXCEPT !.state = state]

\* The user enters a state into the sensor it is of.
OnActivatedSensor(sensors, state) ==
  [i \in DOMAIN sensors |-> IF i \in SensorOf(sensors, state.id)
                            THEN UpdateState(sensors[i], state) ELSE sensors[i]]

-----------------------------------------------------------------------------
Init ==
  /\ hardware = <<>>
  /\ toClient = <<>>
  /\ m_sensors = <<>>
  /\ seen = <<>> /\ active = {}
  /\ sends = 0

\* A sensor as its constructor makes it, given an id.
NewSensor(type, id) == [type |-> type, id |-> id, watch |-> 0, current |-> 0]

\* The server's user has a sensor more; every sensor has an id of its own.
AddSensor ==
  \E type \in SensorType, id \in Ids :
    /\ \A i \in DOMAIN hardware : hardware[i].id # id
    /\ hardware' = Append(hardware, NewSensor(type, id))
    /\ UNCHANGED <<toClient, m_sensors, seen, active, sends>>

\* It configures one, or reads its value.
Change(i) ==
  /\ \E v \in Values(hardware[i].type) :
       \/ hardware' = [hardware EXCEPT ![i].watch = v]
       \/ hardware' = [hardware EXCEPT ![i].current = v]
  /\ UNCHANGED <<toClient, m_sensors, seen, active, sends>>

Send(m) ==
  /\ sends < MaxSends /\ Len(toClient) < MaxUnderWay
  /\ sends' = sends + 1
  /\ toClient' = Append(toClient, m)
  /\ UNCHANGED <<hardware, m_sensors, seen, active>>

\* What the client's user is told of is one of three; "of" is history.
Capabilities(caps, of) == [code |-> "ResponseCapabilities", caps |-> caps, of |-> of]
Activated(p, s) == [code |-> "SensorActivated", caps |-> <<p>>, of |-> <<s>>]
Refused(of) == [code |-> "ServerRuntimeNotification", caps |-> <<>>, of |-> of]

\* send_capabilities: all or nothing.
SendCapabilities ==
  LET caps == ProtoSensors(hardware)
  IN  Send(IF IsInitialized(caps) THEN Capabilities(caps, hardware) ELSE Refused(hardware))

\* send_activesensor.
SendActivatedSensorState(i) ==
  LET p == ActiveSensorFromNative(hardware[i])
  IN  Send(IF p.set THEN Activated(p, hardware[i]) ELSE Refused(<<hardware[i]>>))

\* The callback for capabilities: new sensors, without a state;
OnCapabilitiesResponse ==
  /\ toClient # <<>> /\ Head(toClient).code = "ResponseCapabilities"
  /\ m_sensors' = FromCaps(Head(toClient).caps)
  /\ seen' = Head(toClient).of
  /\ active' = {}
  /\ toClient' = Tail(toClient)
  /\ UNCHANGED <<hardware, sends>>

\* for an active sensor;
OnSensorActivatedResponse ==
  /\ toClient # <<>> /\ Head(toClient).code = "SensorActivated"
  /\ m_sensors' = OnActivatedSensor(m_sensors, NativeActivatedSensor(Head(toClient).caps[1]))
  /\ active' = LET s == Head(toClient).of[1]
               IN  {a \in active : a.id # s.id} \union {s}
  /\ toClient' = Tail(toClient)
  /\ UNCHANGED <<hardware, seen, sends>>

\* and for a result.
OnServerRuntimeNotification ==
  /\ toClient # <<>> /\ Head(toClient).code = "ServerRuntimeNotification"
  /\ toClient' = Tail(toClient)
  /\ UNCHANGED <<hardware, m_sensors, seen, active, sends>>

Next == \/ AddSensor
        \/ \E i \in DOMAIN hardware : Change(i) \/ SendActivatedSensorState(i)
        \/ SendCapabilities
        \/ OnCapabilitiesResponse \/ OnSensorActivatedResponse \/ OnServerRuntimeNotification

Spec == Init /\ [][Next]_vars

-----------------------------------------------------------------------------
\* The same kind of sensor on the two sides.
SameKind(native, proxy) ==
  <<native, proxy>> \in {<<"sensorDryContact", "TypeDryContact">>,
                         <<"sensorTemperature", "TypeTemperature">>}

\* The client's user has the sensors of the server's user as they were when they were
\* sent: all of them, in order, with their ids, kinds and what they watch for, through
\* three enumerations of kinds and two ways to write a value.
ViewFaithful ==
  /\ Len(m_sensors) = Len(seen)
  /\ \A i \in DOMAIN seen :
       /\ m_sensors[i].id = seen[i].id
       /\ SameKind(seen[i].type, m_sensors[i].type)
       /\ m_sensors[i].watch = seen[i].watch

\* The state in a sensor of the client is the value the sensor of that id had when the
\* server last told of it, since the client got its sensors; a state is of the kind of
\* its sensor, which updateState does not look at.
StateFaithful ==
  \A i \in DOMAIN m_sensors :
    LET state == m_sensors[i].state
        told  == {a \in active : a.id = m_sensors[i].id}
    IN  IF told = {} THEN state = NoState
        ELSE \A a \in told : /\ state.type = m_sensors[i].type
                             /\ state.id = a.id
                             /\ state.value = a.current
=============================================================================
