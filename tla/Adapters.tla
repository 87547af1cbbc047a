------------------------------ MODULE Adapters -------------------------------
(***************************************************************************)
(* adapters/: the two laws a class must pass when it is defined, and the   *)
(* translations of the two adapters that run.  A reference made of a       *)
(* manufacturer, a slash and a serial number is a sequence: the parts      *)
(* between its slashes.                                                    *)
(***************************************************************************)
EXTENDS Integers, Sequences, FiniteSets

CONSTANTS Null,          \* a field that is not there, and None
          NoneText,      \* what str() makes of None
          Empty          \* the empty text

DecisionVerbs ==
  {"decide", "assign", "schedule", "allocate", "choose", "select", "pick", "optimize", "optimise", "rank",
   "prioritize", "prioritise", "solve", "plan", "dispatch", "reserve", "book", "arbitrate"}
SetpointFields ==
  {"setpoint", "setpoint_kw", "target_kw", "command_kw", "instantaneous_kw", "power_now_kw", "output_kw",
   "current_a", "voltage_v", "duty_cycle"}

(* A method is the head of its name, and whether an underscore leads it.   *)
ViolatesDecisionVerb(method) == ~method.private /\ method.head \in DecisionVerbs

(* __init_subclass__ sees what the class itself declares, no base of it.   *)
Refusals(cls) ==
  {law \in {"decides", "returns_an_intent", "setpoint", "power_type"} :
     CASE law = "decides"           -> \E m \in cls.own : ViolatesDecisionVerb(m)
       [] law = "returns_an_intent" -> cls.inboundReturns = "ServiceIntent"
       [] law = "setpoint"          -> cls.nestedFields \cap SetpointFields # {}
       [] law = "power_type"        -> cls.power \notin {Null, "ForwardPowerSchedule"}}
IsAdmitted(cls) == ~cls.adapter \/ Refusals(cls) = {}
AssertTranslationOnly(cls) == cls.adapter /\ \A m \in cls.own \cup cls.inherited : ~ViolatesDecisionVerb(m)

---------------------------------------------------------------------------
(* VDA 5050.  The wire names a robot by two fields, the kernel by one.     *)
AssetRef(manufacturer, serial) == manufacturer \o serial
HasSerial(ref) == Tail(ref) \notin {<<>>, <<Empty>>}
FromAssetRefAtTheLastSlash(ref) ==
  [manufacturer |-> SubSeq(ref, 1, Len(ref) - 1), serial |-> <<ref[Len(ref)]>>]
FromAssetRef(ref) == [manufacturer |-> <<Head(ref)>>, serial |-> Tail(ref)]

(* A field that is not there is read as the code's default for it.         *)
Field(message, name, default) == IF name \in DOMAIN message THEN message[name] ELSE default
VdaInbound(message) ==
  LET safety == Field(message, "safetyState", <<>>)
      actions == Field(message, "actionStates", {})
  IN  [ref     |-> AssetRef(Field(message, "manufacturer", <<Empty>>), Field(message, "serialNumber", <<Empty>>)),
       soc     |-> Field(message, "batteryCharge", Null),
       faulted |-> Field(safety, "activeEmergencyStop", "NONE") # "NONE" \/ Field(safety, "fieldViolation", FALSE),
       blocked |-> Field(message, "paused", FALSE) \/ ~Field(message, "driving", FALSE),
       position |-> Field(message, "lastNodeId", Null),
       actions |-> {a \in actions : a.ours \/ a.id # Null}]

(* The order's id is made of the asset, the operation and the time from,   *)
(* and the action's of the order's.                                        *)
OrderId(intent) == <<intent.ref, intent.operation, intent.notBefore>>
ActionType(operation) ==
  IF operation \in {"charge_dcfc", "charge_l2", "opportunity_charge"} THEN "ottoq.startCharging" ELSE <<"ottoq", operation>>
VdaOutbound(intent) ==
  LET to == FromAssetRef(intent.ref)
  IN  [to |-> to, orderId |-> OrderId(intent), orderUpdateId |-> 0, timestamp |-> intent.notBefore, node |-> intent.point,
       action |-> [id |-> OrderId(intent), type |-> ActionType(intent.operation), blocking |-> "HARD",
                   operation |-> intent.operation, notBefore |-> intent.notBefore, notAfter |-> intent.notAfter]]

---------------------------------------------------------------------------
(* OCPI.  Its time is in hours and ours in minutes; what str() reads is    *)
(* text afterwards, the rest is kept as it came.                           *)
TextFields == {"id", "start_date_time", "end_date_time", "currency", "cdr_token", "last_updated"}
KeptFields == {"session_id", "total_energy", "total_cost", "tariff_id", "signed_data"}
CdrFields == TextFields \cup KeptFields \cup {"total_time", "depot_id", "stall_id"}
Text(value) == IF value = Null THEN NoneText ELSE value
OcpiTimeToMin(hours) == IF hours = Null THEN Null ELSE 60 * hours
MinToOcpiTime(minutes) == IF minutes = Null THEN Null ELSE minutes \div 60

CdrToSdr(cdr, dimensions) ==
  [field \in CdrFields \cup DOMAIN dimensions |->
     CASE field \in DOMAIN dimensions             -> dimensions[field]
       [] field \in TextFields \cup {"depot_id"}  -> Text(Field(cdr, field, Empty))
       [] field = "total_time"                    -> OcpiTimeToMin(Field(cdr, field, Null))
       [] OTHER                                   -> Field(cdr, field, Null)]
SdrToCdr(sdr) ==
  [field \in CdrFields |-> IF field = "total_time" THEN MinToOcpiTime(sdr[field]) ELSE sdr[field]]
OcpiInbound(cdr) ==
  [ref |-> Text(Field(cdr, "cdr_token", Empty)), observed |-> Text(Field(cdr, "end_date_time", Empty)),
   cdrId |-> Text(Field(cdr, "id", Empty)), energy |-> Text(Field(cdr, "total_energy", Empty))]
OcpiOutbound(intent) ==
  [operation |-> intent.operation, location |-> intent.point, from |-> intent.notBefore, upto |-> intent.notAfter]
=============================================================================
