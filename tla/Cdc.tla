-------------------------------- MODULE Cdc --------------------------------
(***************************************************************************)
(* The constructors of the common data classes (cdc.c) on the dynamic data *)
(* model (dynamic_model.c): what attributes a data object gets, in which   *)
(* order, with which functional constraint and type.  Trigger options and  *)
(* values are left out.  Every operator returns a sequence of nodes, so    *)
(* that children are put together with \o in the order of their creation.  *)
(* Option masks are sets of names; the control model is a number.          *)
(***************************************************************************)
LOCAL INSTANCE Naturals
LOCAL INSTANCE Sequences
LOCAL INSTANCE SequencesExt

DirectNormal == 1
SboNormal == 2
SboEnhanced == 4

(* ModelNode_addChild: a node goes behind the children there are.          *)
DataAttribute_create(name, type, fc, count) ==
  <<[name |-> name, modelType |-> "DataAttribute", fc |-> fc, type |-> type,
     elementCount |-> count, children |-> <<>>]>>

DataObject_create(name, children) ==
  <<[name |-> name, modelType |-> "DataObject", fc |-> "none", type |-> "none",
     elementCount |-> 0, children |-> children]>>

LOCAL Leaf(name, type, fc) == DataAttribute_create(name, type, fc, 0)
LOCAL Constructed(name, fc, children) ==
  <<[Leaf(name, "CONSTRUCTED", fc)[1] EXCEPT !.children = children]>>
LOCAL When(condition, nodes) == IF condition THEN nodes ELSE <<>>

-----------------------------------------------------------------------------
(* Constructed attribute classes.                                          *)

CAC_AnalogueValue(name, fc, isInteger) ==
  Constructed(name, fc, IF isInteger THEN Leaf("i", "INT32", fc) ELSE Leaf("f", "FLOAT32", fc))

CAC_ValWithTrans(name, fc, hasTransient) ==
  Constructed(name, fc,
    Leaf("posVal", "INT8", fc) \o When(hasTransient, Leaf("transInd", "BOOLEAN", fc)))

CAC_Vector(name, options, fc) ==
  Constructed(name, fc,
    CAC_AnalogueValue("mag", fc, FALSE)
      \o When("AC_CLC_O" \in options, CAC_AnalogueValue("ang", fc, FALSE)))

CAC_ScaledValueConfig(name) ==
  Constructed(name, "CF", Leaf("scaleFactor", "FLOAT32", "CF") \o Leaf("offset", "FLOAT32", "CF"))

CAC_Unit(name, hasMagnitude) ==
  Constructed(name, "CF",
    Leaf("SIUnit", "ENUMERATED", "CF")
      \o When(hasMagnitude, Leaf("multiplier", "ENUMERATED", "CF")))

-----------------------------------------------------------------------------
(* Control parameters.                                                     *)

addOriginator(name, fc) ==
  Constructed(name, fc,
    Leaf("orCat", "ENUMERATED", fc) \o Leaf("orIdent", "OCTET_STRING_64", fc))

addCommonOperateElements(timeActivated, hasCheck) ==
  When(timeActivated, Leaf("operTm", "TIMESTAMP", "CO")) \o addOriginator("origin", "CO")
    \o Leaf("ctlNum", "INT8U", "CO") \o Leaf("T", "TIMESTAMP", "CO") \o Leaf("Test", "BOOLEAN", "CO")
    \o When(hasCheck, Leaf("Check", "CHECK", "CO"))

addGenericOperateElements(type, timeActivated, hasCheck) ==
  Leaf("ctlVal", type, "CO") \o addCommonOperateElements(timeActivated, hasCheck)

CDA_Oper(type, timeActivated) ==
  Constructed("Oper", "CO", addGenericOperateElements(type, timeActivated, TRUE))
CDA_SBOw(type, timeActivated) ==
  Constructed("SBOw", "CO", addGenericOperateElements(type, timeActivated, TRUE))
CDA_Cancel(type, timeActivated) ==
  Constructed("Cancel", "CO", addGenericOperateElements(type, timeActivated, FALSE))

(* control = [model, options]                                              *)
addControls(type, control) ==
  LET timed == "IS_TIME_ACTIVATED" \in control.options IN
    Leaf("ctlModel", "ENUMERATED", "CF")
      \o When(control.model > 0,
           When(control.model = SboNormal, Leaf("SBO", "VISIBLE_STRING_129", "CO"))
             \o When(control.model = SboEnhanced, CDA_SBOw(type, timed))
             \o CDA_Oper(type, timed)
             \o When("HAS_CANCEL" \in control.options, CDA_Cancel(type, timed)))

(* The cancel structure is created under the name SBOw.                    *)
addAnalogControls(control, isInteger) ==
  LET timed == "IS_TIME_ACTIVATED" \in control.options
      Operate(name) ==
        Constructed(name, "CO", CAC_AnalogueValue("ctlVal", "CO", isInteger)
                                  \o addCommonOperateElements(timed, TRUE))
  IN Leaf("ctlModel", "ENUMERATED", "CF")
       \o When(control.model > 0,
            When(control.model = SboNormal, Leaf("SBO", "VISIBLE_STRING_129", "CO"))
              \o When(control.model = SboEnhanced, Operate("SBOw"))
              \o Operate("Oper")
              \o When("HAS_CANCEL" \in control.options, Operate("SBOw")))

addOriginatorAndCtlNumOptions(control, fc) ==
  When("ORIGIN" \in control.options, addOriginator("origin", fc))
    \o When("CTL_NUM" \in control.options, Leaf("ctlNum", "INT8U", fc))

-----------------------------------------------------------------------------
(* Parts that many classes share.                                          *)

addTimeQuality(fc) == Leaf("q", "QUALITY", fc) \o Leaf("t", "TIMESTAMP", fc)

addStatusToDataObject(type) == Leaf("stVal", type, "ST") \o addTimeQuality("ST")

LOCAL Substitution(value) ==
  Leaf("subEna", "BOOLEAN", "SV") \o value
    \o Leaf("subQ", "QUALITY", "SV") \o Leaf("subID", "VISIBLE_STRING_64", "SV")

addOptionPicsSubst(options, type) ==
  When("PICS_SUBST" \in options, Substitution(Leaf("subVal", type, "SV")))

addOptionPicsSubstValWithTrans(options, hasTransient) ==
  When("PICS_SUBST" \in options, Substitution(CAC_ValWithTrans("subVal", "SV", hasTransient)))

addBlkEna(options) == When("BLK_ENA" \in options, Leaf("blkEna", "BOOLEAN", "BL"))

addStandardOptions(options) ==
  When("DESC" \in options, Leaf("d", "VISIBLE_STRING_255", "DC"))
    \o When("DESC_UNICODE" \in options, Leaf("dU", "UNICODE_STRING_255", "DC"))
    \o When("AC_DLNDA" \in options,
            Leaf("cdcNs", "VISIBLE_STRING_255", "EX") \o Leaf("cdcName", "VISIBLE_STRING_255", "EX"))
    \o When("AC_DLN" \in options, Leaf("dataNs", "VISIBLE_STRING_255", "EX"))

-----------------------------------------------------------------------------
(* Status information and measurands.                                      *)

LOCAL Status(name, type, options) ==
  DataObject_create(name,
    addStatusToDataObject(type) \o addOptionPicsSubst(options, type)
      \o addBlkEna(options) \o addStandardOptions(options))

CDC_SPS_create(name, options) == Status(name, "BOOLEAN", options)
CDC_DPS_create(name, options) == Status(name, "CODEDENUM", options)
CDC_INS_create(name, options) == Status(name, "INT32", options)
CDC_ENS_create(name, options) == Status(name, "ENUMERATED", options)

CDC_BCR_create(name, options) ==
  LET frozen == "FROZEN_VALUE" \in options IN
    DataObject_create(name,
      Leaf("actVal", "INT64", "ST")
        \o When(frozen, Leaf("frVal", "INT64", "ST") \o Leaf("frTm", "TIMESTAMP", "ST"))
        \o addTimeQuality("ST")
        \o When("UNIT" \in options, Leaf("units", "ENUMERATED", "CF"))
        \o Leaf("pulsQty", "FLOAT32", "CF")
        \o When(frozen, Leaf("frEna", "BOOLEAN", "CF") \o Leaf("strTm", "TIMESTAMP", "CF")
                          \o Leaf("frPd", "INT32", "CF") \o Leaf("frRs", "BOOLEAN", "CF"))
        \o addStandardOptions(options))

CDC_SEC_create(name, options) ==
  DataObject_create(name,
    Leaf("cnt", "INT32U", "ST") \o Leaf("sev", "ENUMERATED", "ST") \o Leaf("t", "TIMESTAMP", "ST")
      \o When("ADDR" \in options, Leaf("addr", "OCTET_STRING_64", "ST"))
      \o When("ADDINFO" \in options, Leaf("addInfo", "VISIBLE_STRING_64", "ST"))
      \o addStandardOptions(options))

CDC_MV_create(name, options, isInteger) ==
  DataObject_create(name,
    When("INST_MAG" \in options, CAC_AnalogueValue("instMag", "MX", isInteger))
      \o CAC_AnalogueValue("mag", "MX", isInteger)
      \o When("RANGE" \in options, Leaf("range", "ENUMERATED", "MX"))
      \o addTimeQuality("MX") \o addStandardOptions(options))

CDC_CMV_create(name, options) ==
  DataObject_create(name,
    When("INST_MAG" \in options, CAC_Vector("instCVal", options, "MX"))
      \o CAC_Vector("cVal", options, "MX")
      \o When("RANGE" \in options, Leaf("range", "ENUMERATED", "MX"))
      \o When("RANGE_ANG" \in options, Leaf("rangeAng", "ENUMERATED", "MX"))
      \o addTimeQuality("MX") \o addStandardOptions(options))

LOCAL Units(options) ==
  When("UNIT" \in options, CAC_Unit("units", "UNIT_MULTIPLIER" \in options))
LOCAL Limit(option, options, name, fc, isInteger) ==
  When(option \in options, CAC_AnalogueValue(name, fc, isInteger))

CDC_SAV_create(name, options, isInteger) ==
  DataObject_create(name,
    CAC_AnalogueValue("instMag", "MX", isInteger) \o addTimeQuality("MX") \o Units(options)
      \o When("AC_SCAV" \in options, CAC_ScaledValueConfig("sVC"))
      \o Limit("MIN", options, "min", "CF", isInteger) \o Limit("MAX", options, "max", "CF", isInteger)
      \o addStandardOptions(options))

CDC_HST_create(name, options, maxPts) ==
  DataObject_create(name,
    DataAttribute_create("hstVal", "INT32", "ST", maxPts) \o addTimeQuality("ST")
      \o Leaf("numPts", "INT16U", "CF") \o CAC_Unit("units", "UNIT_MULTIPLIER" \in options)
      \o Leaf("maxPts", "INT16U", "CF") \o addStandardOptions(options))

CDC_LPL_create(name, options) ==
  DataObject_create(name,
    Leaf("vendor", "VISIBLE_STRING_255", "DC") \o Leaf("swRev", "VISIBLE_STRING_255", "DC")
      \o addStandardOptions(options))

CDC_ACD_create(name, options) ==
  LET Phase(option, value, dir) ==
        When(option \in options, Leaf(value, "BOOLEAN", "ST") \o Leaf(dir, "ENUMERATED", "ST"))
  IN DataObject_create(name,
       Leaf("general", "BOOLEAN", "ST") \o Leaf("dirGeneral", "ENUMERATED", "ST")
         \o Phase("PHASE_A", "phsA", "dirPhsA") \o Phase("PHASE_B", "phsB", "dirPhsB")
         \o Phase("PHASE_C", "phsC", "dirPhsC") \o Phase("PHASE_NEUT", "neut", "dirNeut")
         \o addTimeQuality("ST") \o addStandardOptions(options))

CDC_ACT_create(name, options) ==
  LET Phase(option, value) == When(option \in options, Leaf(value, "BOOLEAN", "ST")) IN
    DataObject_create(name,
      Leaf("general", "BOOLEAN", "ST") \o Phase("PHASE_A", "phsA") \o Phase("PHASE_B", "phsB")
        \o Phase("PHASE_C", "phsC") \o Phase("PHASE_NEUT", "neut")
        \o addTimeQuality("ST") \o addStandardOptions(options))

LOCAL AngleReference(options) == When("ANGLE_REF" \in options, Leaf("angRef", "ENUMERATED", "CF"))

(* The data objects of the phases, each a complex measured value.          *)
LOCAL Phases(name, phases, options) ==
  DataObject_create(name,
    FlattenSeq([i \in DOMAIN phases |-> CDC_CMV_create(phases[i], options)])
      \o AngleReference(options) \o addStandardOptions(options))

CDC_WYE_create(name, options) ==
  Phases(name, <<"phsA", "phsB", "phsC", "neut", "net", "res">>, options)

CDC_DEL_create(name, options) == Phases(name, <<"phsAB", "phsBC", "phsCA">>, options)

-----------------------------------------------------------------------------
(* Controls.                                                               *)

LOCAL Controllable(name, options, control, status, controls, subst, more) ==
  DataObject_create(name,
    addOriginatorAndCtlNumOptions(control, "ST") \o status \o controls \o subst
      \o addBlkEna(options) \o more \o addStandardOptions(options))

CDC_SPC_create(name, options, control) ==
  Controllable(name, options, control, addStatusToDataObject("BOOLEAN"),
               addControls("BOOLEAN", control), addOptionPicsSubst(options, "BOOLEAN"), <<>>)

CDC_DPC_create(name, options, control) ==
  Controllable(name, options, control, addStatusToDataObject("CODEDENUM"),
               addControls("BOOLEAN", control), addOptionPicsSubst(options, "CODEDENUM"), <<>>)

CDC_INC_create(name, options, control) ==
  Controllable(name, options, control, addStatusToDataObject("INT32"),
               addControls("INT32", control), addOptionPicsSubst(options, "INT32"),
               When("MIN" \in options, Leaf("minVal", "INT32", "CF"))
                 \o When("MAX" \in options, Leaf("maxVal", "INT32", "CF"))
                 \o When("STEP_SIZE" \in options, Leaf("stepSize", "INT32U", "CF")))

CDC_ENC_create(name, options, control) ==
  Controllable(name, options, control, addStatusToDataObject("ENUMERATED"),
               addControls("ENUMERATED", control), addOptionPicsSubst(options, "ENUMERATED"), <<>>)

CDC_BSC_create(name, options, control, hasTransient) ==
  Controllable(name, options, control,
               CAC_ValWithTrans("valWTr", "ST", hasTransient) \o addTimeQuality("ST")
                 \o Leaf("persistent", "BOOLEAN", "CF"),
               addControls("CODEDENUM", control),
               addOptionPicsSubstValWithTrans(options, hasTransient), <<>>)

CDC_APC_create(name, options, control, isInteger) ==
  LET Flag(option, flag, fc) == When(option \in control.options, Leaf(flag, "BOOLEAN", fc)) IN
    DataObject_create(name,
      addOriginatorAndCtlNumOptions(control, "MX")
        \o CAC_AnalogueValue("mxVal", "MX", isInteger) \o addTimeQuality("MX")
        \o Flag("ST_SELD", "stSeld", "MX") \o Flag("OP_RCVD", "opRcvd", "OR")
        \o Flag("OP_OK", "opOk", "OR") \o Flag("T_OP_OK", "tOpOk", "OR")
        \o When("PICS_SUBST" \in options, Substitution(CAC_AnalogueValue("subVal", "SV", isInteger)))
        \o addBlkEna(options) \o addAnalogControls(control, isInteger)
        \o addStandardOptions(options))

-----------------------------------------------------------------------------
(* Settings.                                                               *)

CDC_SPG_create(name, options) ==
  DataObject_create(name, Leaf("setVal", "BOOLEAN", "SP") \o addStandardOptions(options))

CDC_ENG_create(name, options) ==
  DataObject_create(name, Leaf("setVal", "ENUMERATED", "SP") \o addStandardOptions(options))

CDC_ING_create(name, options) ==
  DataObject_create(name,
    Leaf("setVal", "INT32", "SP") \o Units(options)
      \o When("MIN" \in options, Leaf("minVal", "INT32", "SP"))
      \o When("MAX" \in options, Leaf("maxVal", "INT32", "SP"))
      \o When("STEP_SIZE" \in options, Leaf("stepSize", "INT32U", "SP"))
      \o addStandardOptions(options))

CDC_ASG_create(name, options, isInteger) ==
  DataObject_create(name,
    CAC_AnalogueValue("setMag", "SP", isInteger) \o Units(options)
      \o When("AC_SCAV" \in options, CAC_ScaledValueConfig("sVC"))
      \o Limit("MIN", options, "minVal", "CF", isInteger)
      \o Limit("MAX", options, "maxVal", "CF", isInteger)
      \o Limit("STEP_SIZE", options, "stepSize", "CF", isInteger)
      \o addStandardOptions(options))

-----------------------------------------------------------------------------
(* Wind power classes (IEC 61400-25): data objects of data objects.        *)

LOCAL Direct(options) == [model |-> DirectNormal, options |-> options]
LOCAL Old(hasOld) == When(hasOld, CDC_INS_create("oldSt", {}))

CDC_SPV_create(name, options, control, wp, hasChaManRs) ==
  DataObject_create(name,
    When(hasChaManRs, CDC_SPC_create("chaManRs", {}, Direct({})))
      \o CDC_APC_create("actVal", {}, control, FALSE)
      \o Limit("MIN_MX_VAL", wp, "minMxVal", "MX", FALSE)
      \o Limit("MAX_MX_VAL", wp, "maxMxVal", "MX", FALSE)
      \o Limit("TOT_AV_VAL", wp, "totAvVal", "MX", FALSE) \o Limit("SDV_VAL", wp, "sdvVal", "MX", FALSE)
      \o Units(options)
      \o Limit("MIN", options, "minVal", "CF", FALSE) \o Limit("MAX", options, "maxVal", "CF", FALSE)
      \o When("SP_ACS" \in wp, Leaf("spAcs", "CODEDENUM", "CF"))
      \o When("CHA_PER_RS" \in wp, Leaf("chaPerRs", "CODEDENUM", "CF"))
      \o addStandardOptions(options))

CDC_STV_create(name, options, hasOld) ==
  DataObject_create(name, CDC_INS_create("actSt", {}) \o Old(hasOld) \o addStandardOptions(options))

CDC_ALM_create(name, options, hasOld) ==
  DataObject_create(name,
    CDC_SPC_create("almAck", {}, Direct({"ORIGIN"})) \o CDC_INS_create("actSt", {}) \o Old(hasOld)
      \o addStandardOptions(options))

CDC_CMD_create(name, options, control, wp, hasOld) ==
  DataObject_create(name,
    CDC_INC_create("actSt", {}, control) \o Old(hasOld)
      \o When("CM_ACS" \in wp, Leaf("cmAcs", "INT8U", "CF")) \o addStandardOptions(options))

(* The yearly values are created under the name of the monthly ones.       *)
LOCAL Counting(wp, actual, old, total, hasHisRs) ==
  CDC_SPC_create("manRs", {}, Direct({"ORIGIN"}))
    \o When(hasHisRs, CDC_INC_create("hisRs", {}, Direct({"ORIGIN"})))
    \o CDC_INS_create(actual, {}) \o CDC_INS_create(old, {})
    \o When("TM_TOT" \in wp, Leaf(total, "INT32U", "ST"))
    \o When("COUNTING_DAILY" \in wp, DataAttribute_create("dly", "INT32U", "ST", 32))
    \o When("COUNTING_MONTHLY" \in wp, DataAttribute_create("mly", "INT32U", "ST", 13))
    \o When("COUNTING_YEARLY" \in wp, DataAttribute_create("mly", "INT32U", "ST", 21))
    \o When("COUNTING_TOTAL" \in wp, Leaf("tot", "INT32U", "ST"))

CDC_CTE_create(name, options, wp, hasHisRs) ==
  DataObject_create(name,
    Counting(wp, "actCtVal", "oldCtVal", "ctTot", hasHisRs) \o addStandardOptions(options))

CDC_TMS_create(name, options, wp, hasHisRs) ==
  DataObject_create(name,
    Counting(wp, "actTmVal", "oldTmVal", "tmTot", hasHisRs) \o addStandardOptions(options))
=============================================================================
