----------------------------- MODULE ProtoUtils -----------------------------
(***************************************************************************)
(* The two hand-written tables between the protobuf classes and the        *)
(* message types of envelopes: the first is asked when a message is sent,  *)
(* subscribed or dispatched, the second when one is received.  A class     *)
(* that is no message of its own, as proto::Device, is in neither.         *)
(***************************************************************************)
Unknown == 255
nullptr == "nullptr"

MessageType ==
  [ LoginRequest |-> 1, LoginResponse |-> 2,
    DevicesListRequest |-> 3, DevicesListResponse |-> 4,
    DeviceSettingsRequest |-> 28, DeviceSettingsResponse |-> 29,
    CallEvents |-> 13,
    UpdateDeviceRequest |-> 24, UpdateDeviceResponse |-> 25,
    CurrentStateRequest |-> 26, CurrentStateResponse |-> 27,
    NetworkSettingsRequest |-> 30, NetworkSettingsResponse |-> 31 ]

forgottenType(class) ==                                  \* mutant
  IF class \in DOMAIN MessageType \ {"CallEvents"} THEN MessageType[class] ELSE Unknown

messageTypeFor(class) == IF class \in DOMAIN MessageType THEN MessageType[class] ELSE Unknown

\* The switch of the second, by its cases.
Made ==
  [ type \in {1, 2, 3, 4, 13, 24, 25, 26, 27, 28, 29, 30, 31} |->
      CASE type = 1  -> "LoginRequest"           [] type = 2  -> "LoginResponse"
        [] type = 3  -> "DevicesListRequest"     [] type = 4  -> "DevicesListResponse"
        [] type = 28 -> "DeviceSettingsRequest"  [] type = 29 -> "DeviceSettingsResponse"
        [] type = 13 -> "CallEvents"
        [] type = 24 -> "UpdateDeviceRequest"    [] type = 25 -> "UpdateDeviceResponse"
        [] type = 26 -> "CurrentStateRequest"    [] type = 27 -> "CurrentStateResponse"
        [] type = 30 -> "NetworkSettingsRequest" [] type = 31 -> "NetworkSettingsResponse" ]

swapped(type) ==                                         \* mutant
  IF type = 4 THEN Made[3] ELSE IF type = 3 THEN Made[4]
  ELSE IF type \in DOMAIN Made THEN Made[type] ELSE nullptr

newMessageFor(type) == IF type \in DOMAIN Made THEN Made[type] ELSE nullptr
=============================================================================
