------------------------------- MODULE AssetMsg -------------------------------
(***************************************************************************)
(* The messages of asset_msg.cc: what each pass of the codec does with the *)
(* fields of each of the twenty-one messages, in the order of the source.  *)
(***************************************************************************)
EXTENDS WireFields

\* What asset_msg_encode serialises, in order.
AssetPut1 ==
   [ELEMENT |-> <<Str("name"), N4("location"), N1("location_type"), N1("type"),
        Hash("ext")>>,
    DEVICE |-> <<Str("device_type"), List("groups"), List("powers"), Str("ip"),
        Str("hostname"), Str("fqdn"), Str("mac")>>,
    GET_ELEMENT |-> <<N4("element_id"), N1("type")>>,
    RETURN_ELEMENT |-> <<N4("element_id")>>, UPDATE_ELEMENT |-> <<N4("element_id")>>,
    INSERT_ELEMENT |-> <<>>, DELETE_ELEMENT |-> <<N4("element_id"), N1("type")>>,
    OK |-> <<N4("element_id")>>, FAIL |-> <<N1("error_id")>>,
    GET_ELEMENTS |-> <<N1("type")>>, RETURN_ELEMENTS |-> <<Hash("element_ids")>>,
    GET_LOCATION_FROM |-> <<N4("element_id"), N1("recursive"), N1("filter_type")>>,
    GET_LOCATION_TO |-> <<N4("element_id")>>,
    RETURN_LOCATION_TO |-> <<N4("element_id"), N1("type"), Str("name"), Str("type_name")>>]
AssetPut2 ==
   [RETURN_LOCATION_FROM |-> <<N4("element_id"), N1("type"), Str("name"),
        Str("type_name")>>,
    GET_POWER_FROM |-> <<N4("element_id")>>,
    POWERCHAIN_DEVICE |-> <<N4("element_id"), Str("type_name"), Str("name")>>,
    RETURN_POWER |-> <<List("powers")>>, GET_POWER_TO |-> <<N4("element_id")>>,
    GET_POWER_GROUP |-> <<N4("element_id")>>,
    GET_POWER_DATACENTER |-> <<N4("element_id")>>]
AssetPut == Both(AssetPut1, AssetPut2)

\* The room the size pass counts: fixed octets and the fields whose length it adds.
AssetSized1 ==
   [ELEMENT |-> Room(11, {"name", "ext"}),
    DEVICE |-> Room(13, {"device_type", "groups", "powers", "ip", "hostname", "fqdn",
        "mac"}),
    GET_ELEMENT |-> Room(5, {}), RETURN_ELEMENT |-> Room(4, {}),
    UPDATE_ELEMENT |-> Room(4, {}), INSERT_ELEMENT |-> Room(0, {}),
    DELETE_ELEMENT |-> Room(5, {}), OK |-> Room(4, {}), FAIL |-> Room(1, {}),
    GET_ELEMENTS |-> Room(1, {}), RETURN_ELEMENTS |-> Room(4, {"element_ids"}),
    GET_LOCATION_FROM |-> Room(6, {}), GET_LOCATION_TO |-> Room(4, {})]
AssetSized2 ==
   [RETURN_LOCATION_TO |-> Room(7, {"name", "type_name"}),
    RETURN_LOCATION_FROM |-> Room(7, {"name", "type_name"}),
    GET_POWER_FROM |-> Room(4, {}),
    POWERCHAIN_DEVICE |-> Room(6, {"type_name", "name"}),
    RETURN_POWER |-> Room(4, {"powers"}), GET_POWER_TO |-> Room(4, {}),
    GET_POWER_GROUP |-> Room(4, {}), GET_POWER_DATACENTER |-> Room(4, {})]
AssetSized == Both(AssetSized1, AssetSized2)

\* What asset_msg_decode reads, in order.
AssetRead1 ==
   [ELEMENT |-> <<Str("name"), N4("location"), N1("location_type"), N1("type"),
        Hash("ext")>>,
    DEVICE |-> <<Str("device_type"), List("groups"), List("powers"), Str("ip"),
        Str("hostname"), Str("fqdn"), Str("mac")>>,
    GET_ELEMENT |-> <<N4("element_id"), N1("type")>>,
    RETURN_ELEMENT |-> <<N4("element_id")>>, UPDATE_ELEMENT |-> <<N4("element_id")>>,
    INSERT_ELEMENT |-> <<>>, DELETE_ELEMENT |-> <<N4("element_id"), N1("type")>>,
    OK |-> <<N4("element_id")>>, FAIL |-> <<N1("error_id")>>,
    GET_ELEMENTS |-> <<N1("type")>>, RETURN_ELEMENTS |-> <<Hash("element_ids")>>,
    GET_LOCATION_FROM |-> <<N4("element_id"), N1("recursive"), N1("filter_type")>>,
    GET_LOCATION_TO |-> <<N4("element_id")>>,
    RETURN_LOCATION_TO |-> <<N4("element_id"), N1("type"), Str("name"), Str("type_name")>>]
AssetRead2 ==
   [RETURN_LOCATION_FROM |-> <<N4("element_id"), N1("type"), Str("name"),
        Str("type_name")>>,
    GET_POWER_FROM |-> <<N4("element_id")>>,
    POWERCHAIN_DEVICE |-> <<N4("element_id"), Str("type_name"), Str("name")>>,
    RETURN_POWER |-> <<List("powers")>>, GET_POWER_TO |-> <<N4("element_id")>>,
    GET_POWER_GROUP |-> <<N4("element_id")>>,
    GET_POWER_DATACENTER |-> <<N4("element_id")>>]
AssetRead == Both(AssetRead1, AssetRead2)

\* What asset_msg_dup copies.
AssetCopied ==
   [ELEMENT |-> {"name", "location", "location_type", "type", "ext"},
    DEVICE |-> {"device_type", "groups", "powers", "ip", "hostname", "fqdn", "mac", "msg"},
    GET_ELEMENT |-> {"element_id", "type"}, RETURN_ELEMENT |-> {"element_id", "msg"},
    UPDATE_ELEMENT |-> {"element_id", "msg"}, INSERT_ELEMENT |-> {"msg"},
    DELETE_ELEMENT |-> {"element_id", "type"}, OK |-> {"element_id"},
    FAIL |-> {"error_id"}, GET_ELEMENTS |-> {"type"},
    RETURN_ELEMENTS |-> {"element_ids"},
    GET_LOCATION_FROM |-> {"element_id", "recursive", "filter_type"},
    GET_LOCATION_TO |-> {"element_id"},
    RETURN_LOCATION_TO |-> {"element_id", "type", "name", "type_name", "msg"},
    RETURN_LOCATION_FROM |-> {"element_id", "type", "name", "type_name", "dcs", "rooms",
        "rows", "racks", "devices", "grps"},
    GET_POWER_FROM |-> {"element_id"},
    POWERCHAIN_DEVICE |-> {"element_id", "type_name", "name"},
    RETURN_POWER |-> {"devices", "powers"}, GET_POWER_TO |-> {"element_id"},
    GET_POWER_GROUP |-> {"element_id"}, GET_POWER_DATACENTER |-> {"element_id"}]

\* The fields the functions asset_msg_encode_<message> set.
AssetGiven1 ==
   [ELEMENT |-> {"name", "location", "location_type", "type", "ext"},
    DEVICE |-> {"device_type", "groups", "powers", "ip", "hostname", "fqdn", "mac", "msg"},
    GET_ELEMENT |-> {"element_id", "type"}, RETURN_ELEMENT |-> {"element_id", "msg"},
    UPDATE_ELEMENT |-> {"element_id", "msg"}, INSERT_ELEMENT |-> {"msg"},
    DELETE_ELEMENT |-> {"element_id", "type"}, OK |-> {"element_id"}]
AssetGiven2 ==
   [FAIL |-> {"error_id"}, GET_ELEMENTS |-> {"type"},
    RETURN_ELEMENTS |-> {"element_ids"},
    GET_LOCATION_FROM |-> {"element_id", "recursive", "filter_type"},
    GET_LOCATION_TO |-> {"element_id"},
    RETURN_LOCATION_TO |-> {"element_id", "type", "name", "type_name", "msg"},
    RETURN_LOCATION_FROM |-> {"element_id", "type", "name", "type_name", "dcs", "rooms",
        "rows", "racks", "devices", "grps"},
    GET_POWER_FROM |-> {"element_id"}]
AssetGiven3 ==
   [POWERCHAIN_DEVICE |-> {"element_id", "type_name", "name"},
    RETURN_POWER |-> {"devices", "powers"}, GET_POWER_TO |-> {"element_id"},
    GET_POWER_GROUP |-> {"element_id"}, GET_POWER_DATACENTER |-> {"element_id"}]
AssetGiven == Both(AssetGiven1, Both(AssetGiven2, AssetGiven3))

\* The fields the functions asset_msg_send_<message> set.
AssetSends1 ==
   [ELEMENT |-> {"name", "location", "location_type", "type", "ext"},
    DEVICE |-> {"device_type", "groups", "powers", "ip", "hostname", "fqdn", "mac", "msg"},
    GET_ELEMENT |-> {"element_id", "type"}, RETURN_ELEMENT |-> {"element_id", "msg"},
    UPDATE_ELEMENT |-> {"element_id", "msg"}, INSERT_ELEMENT |-> {"msg"},
    DELETE_ELEMENT |-> {"element_id", "type"}, OK |-> {"element_id"}]
AssetSends2 ==
   [FAIL |-> {"error_id"}, GET_ELEMENTS |-> {"type"},
    RETURN_ELEMENTS |-> {"element_ids"},
    GET_LOCATION_FROM |-> {"element_id", "recursive", "filter_type"},
    GET_LOCATION_TO |-> {"element_id"},
    RETURN_LOCATION_TO |-> {"element_id", "type", "name", "type_name", "msg"},
    RETURN_LOCATION_FROM |-> {"element_id", "type", "name", "type_name", "dcs", "rooms",
        "rows", "racks", "devices", "grps"}]
AssetSends3 ==
   [GET_POWER_FROM |-> {"element_id"},
    POWERCHAIN_DEVICE |-> {"element_id", "type_name", "name"},
    RETURN_POWER |-> {"devices", "powers"}, GET_POWER_TO |-> {"element_id"},
    GET_POWER_GROUP |-> {"element_id"}, GET_POWER_DATACENTER |-> {"element_id"}]
AssetSends == Both(AssetSends1, Both(AssetSends2, AssetSends3))

\* The frames that follow the first one: frame fields, then those of "msg".
AssetFrames ==
    [RETURN_LOCATION_FROM |-> <<"dcs", "rooms", "rows", "racks", "devices", "grps">>,
     RETURN_POWER |-> <<"devices">>]
AssetCarries ==
    {"DEVICE", "RETURN_ELEMENT", "UPDATE_ELEMENT", "INSERT_ELEMENT", "RETURN_LOCATION_TO"}

asset_msg ==
    [sign |-> 5, put |-> AssetPut, sized |-> AssetSized, read |-> AssetRead,
     copied |-> AssetCopied, given |-> AssetGiven, sends |-> AssetSends,
     frames |-> AssetFrames, carries |-> AssetCarries]
=============================================================================
