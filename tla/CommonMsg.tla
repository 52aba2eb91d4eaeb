------------------------------- MODULE CommonMsg -------------------------------
(***************************************************************************)
(* The messages of common_msg.cc: what each pass of the codec does with    *)
(* the fields of each of the thirty-two messages, in the order of the source. *)
(***************************************************************************)
EXTENDS WireFields

\* What common_msg_encode serialises, in order.
CommonPut1 ==
   [GET_MEASURE_TYPE_I |-> <<N2("mt_id")>>,
    GET_MEASURE_TYPE_S |-> <<Str("mt_name"), Str("mt_unit")>>,
    GET_MEASURE_SUBTYPE_I |-> <<N2("mt_id"), N2("mts_id")>>,
    GET_MEASURE_SUBTYPE_S |-> <<N2("mt_id"), Str("mts_name"), N1("mts_scale")>>,
    RETURN_MEASURE_TYPE |-> <<N2("mt_id"), Str("mt_name"), Str("mt_unit")>>,
    RETURN_MEASURE_SUBTYPE |-> <<N2("mts_id"), N2("mt_id"), N1("mts_scale"),
        Str("mts_name")>>,
    FAIL |-> <<N1("errtype"), N4("errorno"), LongStr("errmsg"), Hash("aux")>>,
    DB_OK |-> <<N4("rowid"), Hash("aux")>>, CLIENT |-> <<Str("name")>>,
    INSERT_CLIENT |-> <<>>, UPDATE_CLIENT |-> <<N4("client_id")>>,
    DELETE_CLIENT |-> <<N4("client_id")>>, RETURN_CLIENT |-> <<N4("rowid")>>,
    NEW_MEASUREMENT |-> <<Str("client_name"), Str("device_name"), Str("device_type"),
        N2("mt_id"), N2("mts_id"), N8("value")>>]
CommonPut2 ==
   [CLIENT_INFO |-> <<N4("client_id"), N4("device_id"), Chunk("info"), N4("date")>>,
    INSERT_CINFO |-> <<>>, DELETE_CINFO |-> <<N4("cinfo_id")>>,
    RETURN_CINFO |-> <<N4("rowid")>>, DEVICE |-> <<N4("devicetype_id"), Str("name")>>,
    INSERT_DEVICE |-> <<>>, DELETE_DEVICE |-> <<N4("device_id")>>,
    RETURN_DEVICE |-> <<N4("rowid")>>, DEVICE_TYPE |-> <<Str("name")>>,
    INSERT_DEVTYPE |-> <<>>, DELETE_DEVTYPE |-> <<N4("devicetype_id")>>,
    RETURN_DEVTYPE |-> <<N4("rowid")>>, GET_CLIENT |-> <<N4("client_id")>>,
    GET_CINFO |-> <<N4("cinfo_id")>>, GET_DEVICE |-> <<N4("device_id")>>,
    GET_DEVTYPE |-> <<N4("devicetype_id")>>,
    GET_LAST_MEASUREMENTS |-> <<N4("device_id")>>,
    RETURN_LAST_MEASUREMENTS |-> <<N4("device_id"), Str("device_name"),
        List("measurements")>>]
CommonPut == Both(CommonPut1, CommonPut2)

\* The room the size pass counts: fixed octets and the fields whose length it adds.
CommonSized1 ==
   [GET_MEASURE_TYPE_I |-> Room(2, {}),
    GET_MEASURE_TYPE_S |-> Room(2, {"mt_name", "mt_unit"}),
    GET_MEASURE_SUBTYPE_I |-> Room(4, {}),
    GET_MEASURE_SUBTYPE_S |-> Room(4, {"mts_name"}),
    RETURN_MEASURE_TYPE |-> Room(4, {"mt_name", "mt_unit"}),
    RETURN_MEASURE_SUBTYPE |-> Room(6, {"mts_name"}),
    FAIL |-> Room(13, {"errmsg", "aux"}), DB_OK |-> Room(8, {"aux"}),
    CLIENT |-> Room(1, {"name"}), INSERT_CLIENT |-> Room(0, {}),
    UPDATE_CLIENT |-> Room(4, {}), DELETE_CLIENT |-> Room(4, {}),
    RETURN_CLIENT |-> Room(4, {}),
    NEW_MEASUREMENT |-> Room(15, {"client_name", "device_name", "device_type"})]
CommonSized2 ==
   [CLIENT_INFO |-> Room(16, {"info"}), INSERT_CINFO |-> Room(0, {}),
    DELETE_CINFO |-> Room(4, {}), RETURN_CINFO |-> Room(4, {}),
    DEVICE |-> Room(5, {"name"}), INSERT_DEVICE |-> Room(0, {}),
    DELETE_DEVICE |-> Room(4, {}), RETURN_DEVICE |-> Room(4, {}),
    DEVICE_TYPE |-> Room(1, {"name"}), INSERT_DEVTYPE |-> Room(0, {}),
    DELETE_DEVTYPE |-> Room(4, {}), RETURN_DEVTYPE |-> Room(4, {}),
    GET_CLIENT |-> Room(4, {}), GET_CINFO |-> Room(4, {}), GET_DEVICE |-> Room(4, {}),
    GET_DEVTYPE |-> Room(4, {}), GET_LAST_MEASUREMENTS |-> Room(4, {}),
    RETURN_LAST_MEASUREMENTS |-> Room(9, {"device_name", "measurements"})]
CommonSized == Both(CommonSized1, CommonSized2)

\* What common_msg_decode reads, in order.
CommonRead1 ==
   [GET_MEASURE_TYPE_I |-> <<N2("mt_id")>>,
    GET_MEASURE_TYPE_S |-> <<Str("mt_name"), Str("mt_unit")>>,
    GET_MEASURE_SUBTYPE_I |-> <<N2("mt_id"), N2("mts_id")>>,
    GET_MEASURE_SUBTYPE_S |-> <<N2("mt_id"), Str("mts_name"), N1("mts_scale")>>,
    RETURN_MEASURE_TYPE |-> <<N2("mt_id"), Str("mt_name"), Str("mt_unit")>>,
    RETURN_MEASURE_SUBTYPE |-> <<N2("mts_id"), N2("mt_id"), N1("mts_scale"),
        Str("mts_name")>>,
    FAIL |-> <<N1("errtype"), N4("errorno"), LongStr("errmsg"), Hash("aux")>>,
    DB_OK |-> <<N4("rowid"), Hash("aux")>>, CLIENT |-> <<Str("name")>>,
    INSERT_CLIENT |-> <<>>, UPDATE_CLIENT |-> <<N4("client_id")>>,
    DELETE_CLIENT |-> <<N4("client_id")>>, RETURN_CLIENT |-> <<N4("rowid")>>,
    NEW_MEASUREMENT |-> <<Str("client_name"), Str("device_name"), Str("device_type"),
        N2("mt_id"), N2("mts_id"), N8("value")>>,
    CLIENT_INFO |-> <<N4("client_id"), N4("device_id"), Chunk("info"), N4("date")>>,
    INSERT_CINFO |-> <<>>, DELETE_CINFO |-> <<N4("cinfo_id")>>]
CommonRead2 ==
   [RETURN_CINFO |-> <<N4("rowid")>>, DEVICE |-> <<N4("devicetype_id"), Str("name")>>,
    INSERT_DEVICE |-> <<>>, DELETE_DEVICE |-> <<N4("device_id")>>,
    RETURN_DEVICE |-> <<N4("rowid")>>, DEVICE_TYPE |-> <<Str("name")>>,
    INSERT_DEVTYPE |-> <<>>, DELETE_DEVTYPE |-> <<N4("devicetype_id")>>,
    RETURN_DEVTYPE |-> <<N4("rowid")>>, GET_CLIENT |-> <<N4("client_id")>>,
    GET_CINFO |-> <<N4("cinfo_id")>>, GET_DEVICE |-> <<N4("device_id")>>,
    GET_DEVTYPE |-> <<N4("devicetype_id")>>,
    GET_LAST_MEASUREMENTS |-> <<N4("device_id")>>,
    RETURN_LAST_MEASUREMENTS |-> <<N4("device_id"), Str("device_name"),
        List("measurements")>>]
CommonRead == Both(CommonRead1, CommonRead2)

\* What common_msg_dup copies.
CommonCopied1 ==
   [GET_MEASURE_TYPE_I |-> {"mt_id"}, GET_MEASURE_TYPE_S |-> {"mt_name", "mt_unit"},
    GET_MEASURE_SUBTYPE_I |-> {"mt_id", "mts_id"},
    GET_MEASURE_SUBTYPE_S |-> {"mt_id", "mts_name", "mts_scale"},
    RETURN_MEASURE_TYPE |-> {"mt_id", "mt_name", "mt_unit"},
    RETURN_MEASURE_SUBTYPE |-> {"mts_id", "mt_id", "mts_scale", "mts_name"},
    FAIL |-> {"errtype", "errorno", "errmsg", "aux"}, DB_OK |-> {"rowid", "aux"},
    CLIENT |-> {"name"}, INSERT_CLIENT |-> {"msg"},
    UPDATE_CLIENT |-> {"client_id", "msg"}, DELETE_CLIENT |-> {"client_id"},
    RETURN_CLIENT |-> {"rowid", "msg"},
    NEW_MEASUREMENT |-> {"client_name", "device_name", "device_type", "mt_id", "mts_id",
        "value"},
    CLIENT_INFO |-> {"client_id", "device_id", "info", "date"},
    INSERT_CINFO |-> {"msg"}, DELETE_CINFO |-> {"cinfo_id"},
    RETURN_CINFO |-> {"rowid", "msg"}, DEVICE |-> {"devicetype_id", "name"},
    INSERT_DEVICE |-> {"msg"}, DELETE_DEVICE |-> {"device_id"},
    RETURN_DEVICE |-> {"rowid", "msg"}, DEVICE_TYPE |-> {"name"}]
CommonCopied2 ==
   [INSERT_DEVTYPE |-> {"msg"}, DELETE_DEVTYPE |-> {"devicetype_id"},
    RETURN_DEVTYPE |-> {"rowid", "msg"}, GET_CLIENT |-> {"client_id"},
    GET_CINFO |-> {"cinfo_id"}, GET_DEVICE |-> {"device_id"},
    GET_DEVTYPE |-> {"devicetype_id"}, GET_LAST_MEASUREMENTS |-> {"device_id"},
    RETURN_LAST_MEASUREMENTS |-> {"device_id", "device_name", "measurements"}]
CommonCopied == Both(CommonCopied1, CommonCopied2)

\* The fields the functions common_msg_encode_<message> set.
CommonGiven1 ==
   [GET_MEASURE_TYPE_I |-> {"mt_id"}, GET_MEASURE_TYPE_S |-> {"mt_name", "mt_unit"},
    GET_MEASURE_SUBTYPE_I |-> {"mt_id", "mts_id"},
    GET_MEASURE_SUBTYPE_S |-> {"mt_id", "mts_name", "mts_scale"},
    RETURN_MEASURE_TYPE |-> {"mt_id", "mt_name", "mt_unit"},
    RETURN_MEASURE_SUBTYPE |-> {"mts_id", "mt_id", "mts_scale", "mts_name"},
    FAIL |-> {"errtype", "errorno", "errmsg", "aux"}, DB_OK |-> {"rowid", "aux"},
    CLIENT |-> {"name"}]
CommonGiven2 ==
   [INSERT_CLIENT |-> {"msg"}, UPDATE_CLIENT |-> {"client_id", "msg"},
    DELETE_CLIENT |-> {"client_id"}, RETURN_CLIENT |-> {"rowid", "msg"},
    NEW_MEASUREMENT |-> {"client_name", "device_name", "device_type", "mt_id", "mts_id",
        "value"},
    CLIENT_INFO |-> {"client_id", "device_id", "info", "date"},
    INSERT_CINFO |-> {"msg"}, DELETE_CINFO |-> {"cinfo_id"},
    RETURN_CINFO |-> {"rowid", "msg"}]
CommonGiven3 ==
   [DEVICE |-> {"devicetype_id", "name"}, INSERT_DEVICE |-> {"msg"},
    DELETE_DEVICE |-> {"device_id"}, RETURN_DEVICE |-> {"rowid", "msg"},
    DEVICE_TYPE |-> {"name"}, INSERT_DEVTYPE |-> {"msg"},
    DELETE_DEVTYPE |-> {"devicetype_id"}, RETURN_DEVTYPE |-> {"rowid", "msg"},
    GET_CLIENT |-> {"client_id"}, GET_CINFO |-> {"cinfo_id"}]
CommonGiven4 ==
   [GET_DEVICE |-> {"device_id"}, GET_DEVTYPE |-> {"devicetype_id"},
    GET_LAST_MEASUREMENTS |-> {"device_id"},
    RETURN_LAST_MEASUREMENTS |-> {"device_id", "device_name", "measurements"}]
CommonGiven == Both(CommonGiven1, Both(CommonGiven2, Both(CommonGiven3, CommonGiven4)))

\* The fields the functions common_msg_send_<message> set.
CommonSends1 ==
   [GET_MEASURE_TYPE_I |-> {"mt_id"}, GET_MEASURE_TYPE_S |-> {"mt_name", "mt_unit"},
    GET_MEASURE_SUBTYPE_I |-> {"mt_id", "mts_id"},
    GET_MEASURE_SUBTYPE_S |-> {"mt_id", "mts_name", "mts_scale"},
    RETURN_MEASURE_TYPE |-> {"mt_id", "mt_name", "mt_unit"},
    RETURN_MEASURE_SUBTYPE |-> {"mts_id", "mt_id", "mts_scale", "mts_name"},
    FAIL |-> {"errtype", "errorno", "errmsg", "aux"}, DB_OK |-> {"rowid", "aux"}]
CommonSends2 ==
   [CLIENT |-> {"name"}, INSERT_CLIENT |-> {"msg"},
    UPDATE_CLIENT |-> {"client_id", "msg"}, DELETE_CLIENT |-> {"client_id"},
    RETURN_CLIENT |-> {"rowid", "msg"},
    NEW_MEASUREMENT |-> {"client_name", "device_name", "device_type", "mt_id", "mts_id",
        "value"},
    CLIENT_INFO |-> {"client_id", "device_id", "info", "date"},
    INSERT_CINFO |-> {"msg"}, DELETE_CINFO |-> {"cinfo_id"}]
CommonSends3 ==
   [RETURN_CINFO |-> {"rowid", "msg"}, DEVICE |-> {"devicetype_id", "name"},
    INSERT_DEVICE |-> {"msg"}, DELETE_DEVICE |-> {"device_id"},
    RETURN_DEVICE |-> {"rowid", "msg"}, DEVICE_TYPE |-> {"name"},
    INSERT_DEVTYPE |-> {"msg"}, DELETE_DEVTYPE |-> {"devicetype_id"},
    RETURN_DEVTYPE |-> {"rowid", "msg"}]
CommonSends4 ==
   [GET_CLIENT |-> {"client_id"}, GET_CINFO |-> {"cinfo_id"},
    GET_DEVICE |-> {"device_id"}, GET_DEVTYPE |-> {"devicetype_id"},
    GET_LAST_MEASUREMENTS |-> {"device_id"},
    RETURN_LAST_MEASUREMENTS |-> {"device_id", "device_name", "measurements"}]
CommonSends == Both(CommonSends1, Both(CommonSends2, Both(CommonSends3, CommonSends4)))

\* The frames that follow the first one: those of "msg".
CommonCarries ==
    {"INSERT_CLIENT", "UPDATE_CLIENT", "RETURN_CLIENT", "INSERT_CINFO", "RETURN_CINFO",
     "INSERT_DEVICE", "RETURN_DEVICE", "INSERT_DEVTYPE", "RETURN_DEVTYPE"}

common_msg ==
    [sign |-> 9, put |-> CommonPut, sized |-> CommonSized, read |-> CommonRead,
     copied |-> CommonCopied, given |-> CommonGiven, sends |-> CommonSends,
     frames |-> <<>>, carries |-> CommonCarries]
=============================================================================
