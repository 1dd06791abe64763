----------------------------- MODULE ProfileChecks -----------------------------
(***************************************************************************)
(* What a device publishes, checked before anything is asked of it           *)
(* (harness/vtp1_harness/checks/discovery.py, info.py), and its supply       *)
(* (power.py).  A check that fails at severity SHOULD is a warning.          *)
(***************************************************************************)
EXTENDS ControlChecks

Decoded(w) == SkipIf(w, ~w.session.decodes)
Scanned(w) == SkipIf(w, ~w.session.scanned)

-----------------------------------------------------------------------------
(* Advertisement and attribute table *)

ServiceUuid(w) == FailIf(Scanned(w), ~Advert(w.device).service)
ServiceData(w) ==
    LET a == WarnIf(Scanned(w), ~Advert(w.device).data)
    IN  Noted(a, [a.session EXCEPT !.adv_data = TRUE])
ServiceDataAgrees(w) ==
    WarnIf(Decoded(SkipIf(w, ~w.session.adv_data)), ~Advert(w.device).agrees)

AttributeTable(w)    == FailIf(w, ~(Characteristics \subseteq Table(w.device)))
NoExtra(w)           == FailIf(w, ~(Table(w.device) \subseteq Characteristics))

\* A stream nobody declared still takes its CCCD write.
Inert(w) == {c \in DOMAIN CccdOwner : CccdOwner[c] \notin w.session.caps /\ c \in Table(w.device)}
InertCccd(w) ==
    ObserveIf(FailIf(SkipIf(Decoded(w), Inert(w) = {}),
                     Has(w.device, "inert_cccd_rejected")), TRUE)

InertControl(w) ==
    FailIf(SkipIf(Decoded(w), "control" \in w.session.caps),
           InertTakes(w.device))

-----------------------------------------------------------------------------
(* Info *)

InfoDecodes(w)          == FailIf(w, ~w.session.decodes)
InfoMajor(w)            == FailIf(Decoded(w), ~Info(w.device).major)
ReservedCapabilities(w) == FailIf(Decoded(w), Info(w.device).reserved)
CapabilityImplications(w) ==
    FailIf(Decoded(w), \E c \in DOMAIN Implies \cap w.session.caps :
                          ~(Implies[c] \subseteq w.session.caps))

\* A capacity of zero means none.
Capacities(w) ==
    FailIf(Decoded(w), \E r \in DOMAIN w.session.capacity :
                          (r \in w.session.caps) # (w.session.capacity[r] # 0))
InfoRateCeiling(w) ==
    WarnIf(Decoded(w), \E r \in DOMAIN w.session.rate : w.session.rate[r] > w.session.capacity[r])

-----------------------------------------------------------------------------
(* Power *)

Supplied(w) == SkipIf(w, ~w.session.powered)
GetPower(w) ==
    LET a == Expect(w, Bare("GET_POWER"), {"ok"})
    IN  Noted(a, [a.session EXCEPT !.powered = TRUE, !.power = Power(a.device)])
PercentInRange(w) ==
    LET p == w.session.power
    IN  FailIf(SkipIf(Supplied(w), "percent" \notin p.valid), p.percent > 100)
SomethingValid(w) == ObserveIf(FailIf(Supplied(w), w.session.power.valid = {}), TRUE)
PowerAbsentZero(w) ==
    LET p == w.session.power
    IN  FailIf(Supplied(w), "percent" \notin p.valid /\ p.percent # 0)
PowerReserved(w) == FailIf(Supplied(w), w.session.power.reserved # 0)

-----------------------------------------------------------------------------
Supply == {"power", "control"}

ProfileRegistry ==
    <<Check("adv.service_uuid", {}, FALSE),
      Check("adv.service_data", {}, FALSE),
      Check("gatt.attribute_table", {}, FALSE),
      Check("gatt.no_extra_characteristics", {}, FALSE),
      Check("gatt.inert_cccd", {}, FALSE),
      Check("gatt.inert_control_rejects_writes", {}, TRUE),
      Check("info.decodes", {}, FALSE),
      Check("info.major", {}, FALSE),
      Check("info.reserved_capabilities", {}, FALSE),
      Check("info.capability_implications", {}, FALSE),
      Check("info.capacities", {}, FALSE),
      Check("info.rate_ceiling", {}, FALSE),
      Check("adv.service_data_agrees", {}, FALSE)>>

PowerRegistry ==
    <<Check("power.get_power", Supply, FALSE),
      Check("power.percent_in_range", Supply, FALSE),
      Check("power.something_valid", Supply, FALSE),
      Check("power.absent_fields_zero", Supply, FALSE),
      Check("power.reserved", Supply, FALSE)>>

ProfileCheck(id, w) ==
    CASE id = "adv.service_uuid" -> ServiceUuid(w)
      [] id = "adv.service_data" -> ServiceData(w)
      [] id = "gatt.attribute_table" -> AttributeTable(w)
      [] id = "gatt.no_extra_characteristics" -> NoExtra(w)
      [] id = "gatt.inert_cccd" -> InertCccd(w)
      [] id = "gatt.inert_control_rejects_writes" -> InertControl(w)
      [] id = "info.decodes" -> InfoDecodes(w)
      [] id = "info.major" -> InfoMajor(w)
      [] id = "info.reserved_capabilities" -> ReservedCapabilities(w)
      [] id = "info.capability_implications" -> CapabilityImplications(w)
      [] id = "info.capacities" -> Capacities(w)
      [] id = "info.rate_ceiling" -> InfoRateCeiling(w)
      [] id = "adv.service_data_agrees" -> ServiceDataAgrees(w)
      [] id = "power.get_power" -> GetPower(w)
      [] id = "power.percent_in_range" -> PercentInRange(w)
      [] id = "power.something_valid" -> SomethingValid(w)
      [] id = "power.absent_fields_zero" -> PowerAbsentZero(w)
      [] id = "power.reserved" -> PowerReserved(w)
=============================================================================
