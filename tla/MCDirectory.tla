---------------------------- MODULE MCDirectory ----------------------------
(* Model 1 has two devices, control blocks, a data set and two logical     *)
(* nodes of which one's name starts with the other's; a client that reads  *)
(* and one that creates and deletes data sets.  Every other model has one  *)
(* logical node with a common data class twice, with all its options and   *)
(* with none, and is only loaded.                                          *)
EXTENDS Directory, Cdc

MCClients == {"reader", "editor"}
MCCalls(i, c) ==
  IF i > 1 THEN (IF c = "reader" THEN {"load"} ELSE {})
  ELSE IF c = "reader" THEN {"load", "directory", "values", "timeout", "lost"}
  ELSE {"create", "delete", "values", "names", "lost"}

Node(name, children) == [name |-> name, children |-> children, rcbs |-> <<>>, gcbs |-> <<>>]
Member(ld, item) == [domainId |-> ld, itemId |-> item]

Std == {"DESC", "DESC_UNICODE", "AC_DLNDA", "AC_DLN"}
Core ==
  [devices |->
     << [name |-> "LD1", nodes |->
           << [Node("LLN0", CDC_LPL_create("NamPlt", {})) EXCEPT
                 !.rcbs = << [name |-> "urcb", buffered |-> FALSE], [name |-> "brcb", buffered |-> TRUE] >>,
                 !.gcbs = <<"gcb">>],
              Node("GGIO1", CDC_SPS_create("Ind1", {"DESC"})),
              Node("GGIO10", CDC_SPC_create("SPCSO1", {}, [model |-> 1, options |-> {}])) >>],
        [name |-> "LD2", nodes |-> << Node("GGIO1", CDC_MV_create("AnIn1", {}, FALSE)) >>] >>,
   dataSets |-> << [ld |-> "LD1", name |-> <<"LLN0", "ev">>,
                    members |-> << Member("LD1", <<"GGIO1", "ST", "Ind1", "stVal">>),
                                   Member("LD2", <<"GGIO1", "MX", "AnIn1">>) >>] >>]

Full == Std \cup {"PICS_SUBST", "BLK_ENA", "FROZEN_VALUE", "UNIT", "UNIT_MULTIPLIER", "ADDR", "ADDINFO",
  "INST_MAG", "RANGE", "RANGE_ANG", "AC_CLC_O", "AC_SCAV", "MIN", "MAX", "STEP_SIZE", "PHASE_A", "PHASE_B",
  "PHASE_C", "PHASE_NEUT", "ANGLE_REF"}
Sbo == [model |-> SboEnhanced, options |-> {"ORIGIN", "CTL_NUM", "HAS_CANCEL", "IS_TIME_ACTIVATED", "ST_SELD",
                                            "OP_RCVD", "OP_OK", "T_OP_OK"}]
SboPlain == [model |-> SboNormal, options |-> {}]
Status == [model |-> 0, options |-> {}]
Wp == {"MIN_MX_VAL", "MAX_MX_VAL", "TOT_AV_VAL", "SDV_VAL", "SP_ACS", "CHA_PER_RS", "CM_ACS", "TM_TOT",
       "COUNTING_DAILY", "COUNTING_MONTHLY", "COUNTING_YEARLY", "COUNTING_TOTAL"}

Variants == << [name |-> "A", options |-> Full, control |-> Sbo, wp |-> Wp, flag |-> TRUE],
               [name |-> "B", options |-> {}, control |-> SboPlain, wp |-> {}, flag |-> FALSE] >>

CdcNames == <<"SPS", "DPS", "INS", "ENS", "BCR", "SEC", "MV", "CMV", "SAV", "HST", "LPL", "ACD", "ACT", "WYE",
  "DEL", "SPC", "DPC", "INC", "ENC", "BSC", "APC", "SPG", "ENG", "ING", "ASG", "SPV", "STV", "ALM", "CMD",
  "CTE", "TMS">>

Object(cdc, v) ==
  CASE cdc = "SPS" -> CDC_SPS_create(v.name, v.options)
    [] cdc = "DPS" -> CDC_DPS_create(v.name, v.options)
    [] cdc = "INS" -> CDC_INS_create(v.name, v.options)
    [] cdc = "ENS" -> CDC_ENS_create(v.name, v.options)
    [] cdc = "BCR" -> CDC_BCR_create(v.name, v.options)
    [] cdc = "SEC" -> CDC_SEC_create(v.name, v.options)
    [] cdc = "MV" -> CDC_MV_create(v.name, v.options, v.flag)
    [] cdc = "CMV" -> CDC_CMV_create(v.name, v.options)
    [] cdc = "SAV" -> CDC_SAV_create(v.name, v.options, v.flag)
    [] cdc = "HST" -> CDC_HST_create(v.name, v.options, IF v.flag THEN 3 ELSE 1)
    [] cdc = "LPL" -> CDC_LPL_create(v.name, v.options)
    [] cdc = "ACD" -> CDC_ACD_create(v.name, v.options)
    [] cdc = "ACT" -> CDC_ACT_create(v.name, v.options)
    [] cdc = "WYE" -> CDC_WYE_create(v.name, v.options)
    [] cdc = "DEL" -> CDC_DEL_create(v.name, v.options)
    [] cdc = "SPC" -> CDC_SPC_create(v.name, v.options, v.control)
    [] cdc = "DPC" -> CDC_DPC_create(v.name, v.options, v.control)
    [] cdc = "INC" -> CDC_INC_create(v.name, v.options, v.control)
    [] cdc = "ENC" -> CDC_ENC_create(v.name, v.options, v.control)
    [] cdc = "BSC" -> CDC_BSC_create(v.name, v.options, v.control, v.flag)
    [] cdc = "APC" -> CDC_APC_create(v.name, v.options, v.control, v.flag)
    [] cdc = "SPG" -> CDC_SPG_create(v.name, v.options)
    [] cdc = "ENG" -> CDC_ENG_create(v.name, v.options)
    [] cdc = "ING" -> CDC_ING_create(v.name, v.options)
    [] cdc = "ASG" -> CDC_ASG_create(v.name, v.options, v.flag)
    [] cdc = "SPV" -> CDC_SPV_create(v.name, v.options, Status, v.wp, v.flag)
    [] cdc = "STV" -> CDC_STV_create(v.name, v.options, v.flag)
    [] cdc = "ALM" -> CDC_ALM_create(v.name, v.options, v.flag)
    [] cdc = "CMD" -> CDC_CMD_create(v.name, v.options, Status, v.wp, v.flag)
    [] cdc = "CTE" -> CDC_CTE_create(v.name, v.options, v.wp, v.flag)
    [] cdc = "TMS" -> CDC_TMS_create(v.name, v.options, v.wp, v.flag)

MCModels == [i \in 1..(Len(CdcNames) + 1) |->
  IF i = 1 THEN Core
  ELSE [devices |-> << [name |-> "LD1", nodes |->
          << Node("TEST1", FlattenSeq([k \in DOMAIN Variants |-> Object(CdcNames[i - 1], Variants[k])])) >>] >>,
        dataSets |-> <<>>]]

Reference(ld, path, fc) == [ld |-> ld, path |-> path, fc |-> fc]
Key(ld, name) == [ld |-> ld, name |-> name]
Ev == Key("LD1", <<"LLN0", "ev">>)
Dyn == Key("LD1", <<"LLN0", "dyn">>)
Own == Key("@", <<"@x">>)
MCNamed(c, op) ==
  IF c = "reader" THEN (IF op \in {"directory", "values"} THEN {Ev, Dyn} ELSE {})
  ELSE CASE op = "create" -> {Dyn, Own} [] op = "delete" -> {Ev, Dyn, Own} [] op = "values" -> {Own}
         [] OTHER -> {}
MCDefinitions(key) ==
  IF key = Own THEN { << Reference("LD2", <<"GGIO1", "AnIn1", "mag", "f">>, "MX") >> }
  ELSE { << Reference("LD2", <<"GGIO1", "AnIn1">>, "MX") >>,
         << Reference("LD1", <<"GGIO1", "Ind1">>, "ST"), Reference("LD1", <<"GGIO10", "SPCSO1", "stVal">>, "ST") >> }
MCPageSize == [domains |-> 2, variables |-> 60, dataSets |-> 1]
MCStartsWith == {<<"GGIO10", "GGIO1">>}
=============================================================================
