------------------------------ MODULE PcieConfig ------------------------------
(***************************************************************************)
(* Config space registers of a PCIe function (pcie.py): each capability    *)
(* and each header type has a read method that assembles a register from   *)
(* fields and a write method that takes fields from a register, with byte  *)
(* enables.                                                                *)
(*                                                                         *)
(* A register is the set of its one bits.  S(f, lo, w, pos) is a slice:    *)
(* bits lo .. lo+w-1 of field f stand at pos .. pos+w-1 of the register.   *)
(* Flags next to each other in both methods are one field here.            *)
(***************************************************************************)
EXTENDS Integers, FiniteSets

CONSTANTS
  Functions,    \* header type and MSI variant of the functions to examine
  Patterns,     \* register values written
  Lanes,        \* byte enables used
  MAXWRITES

VARIABLES
  fn,           \* the function: [bridge, msi64, masking, bar_mask]
  val,          \* val[f]: the one bits of field f
  last,         \* the last write and what all registers read before it
  writes

cvars == <<fn, val, last, writes>>

S(f, lo, w, pos) == [f |-> f, lo |-> lo, w |-> w, pos |-> pos, w1c |-> FALSE]
C(f, lo, w, pos) == [f |-> f, lo |-> lo, w |-> w, pos |-> pos, w1c |-> TRUE]

read_pm_cap_register(r) ==
  CASE r = 0 -> {S("pm_capabilities", 0, 16, 16)}
    [] r = 1 -> {S("pm_data", 0, 8, 24), S("pm_control_status", 0, 16, 0)}
    [] OTHER -> {}

read_pcie_cap_register_caps(r) ==
  CASE r = 0 -> {S("version", 0, 4, 16), S("pcie_device_type", 0, 4, 20), S("slot_implemented", 0, 1, 24),
                 S("interrupt_message_number", 0, 5, 25)}
    [] r = 1 -> {S("device_capabilities", 0, 12, 0), S("role_based_error_reporting", 0, 1, 15),
                 S("captured_slot_power", 0, 10, 18), S("flr_capability", 0, 1, 28)}
    [] OTHER -> {}
(* Link capabilities: fields shifted to the right instead of to the left,  *)
(* only the top of the link width is left.                                 *)
read_pcie_cap_register_device(r) ==
  CASE r = 2 -> {S("error_reporting_enables", 0, 4, 0), S("enable_relaxed_ordering", 0, 1, 4),
                 S("max_payload_size", 0, 3, 5), S("extended_tag_field_enable", 0, 1, 8),
                 S("device_enables", 0, 3, 9), S("max_read_request_size", 0, 3, 12),
                 S("device_status", 0, 6, 16)}
    [] r = 3 -> {S("max_link_speed", 0, 4, 0), S("max_link_width", 4, 2, 0), S("link_flags", 0, 5, 18),
                 S("port_number", 0, 8, 24)}
    [] r = 4 -> {S("aspm_control", 0, 2, 0), S("read_completion_boundary", 0, 1, 3), S("link_disable", 0, 1, 4),
                 S("link_enables", 0, 6, 6), S("current_link_speed", 0, 4, 16),
                 S("negotiated_link_width", 0, 6, 20), S("link_state", 0, 3, 27), S("link_bandwidth_status", 0, 2, 30)}
    [] OTHER -> {}
read_pcie_cap_register_slot(r) ==
  CASE r = 5 -> {S("slot_capabilities", 0, 32, 0)}
    [] r = 6 -> {S("slot_enables", 0, 6, 0), S("attention_indicator_control", 0, 2, 6),
                 S("power_indicator_control", 0, 2, 8), S("slot_controls", 0, 3, 10),
                 S("slot_events", 0, 5, 16), S("slot_state", 0, 3, 21), S("data_link_layer_state_changed", 0, 1, 24)}
    [] r = 7 -> {S("root_control", 0, 5, 0), S("crs_software_visibility", 0, 1, 16)}
    [] r = 8 -> {S("pme_requester_id", 0, 16, 0), S("pme_status", 0, 1, 16), S("pme_pending", 0, 1, 17)}
    [] OTHER -> {}
read_pcie_cap_register_2(r) ==
  CASE r = 9 -> {S("device_capabilities_2", 0, 14, 0), S("obff_and_prefix", 0, 6, 18)}
    [] r = 10 -> {S("device_control_2", 0, 11, 0), S("obff_enable", 0, 2, 13), S("prefix_blocking", 0, 1, 15)}
    [] r = 11 -> {S("supported_link_speeds", 0, 7, 1), S("crosslink_supported", 0, 1, 8)}
    [] r = 12 -> {S("link_control_2", 0, 6, 0), S("selectable_de_emphasis", 0, 1, 6), S("transmit_margin", 0, 3, 7),
                  S("compliance", 0, 2, 10), S("compliance_preset_de_emphasis", 0, 4, 12), S("link_status_2", 0, 6, 16)}
    [] OTHER -> {}
read_pcie_cap_register(r) ==
  UNION {read_pcie_cap_register_caps(r), read_pcie_cap_register_device(r),
         read_pcie_cap_register_slot(r), read_pcie_cap_register_2(r)}

write_pcie_cap_register_device(r) ==
  CASE r = 2 -> {S("error_reporting_enables", 0, 4, 0), S("enable_relaxed_ordering", 0, 1, 4),
                 S("max_payload_size", 0, 3, 5), S("extended_tag_field_enable", 0, 1, 8),
                 S("device_enables", 0, 3, 9), S("max_read_request_size", 0, 3, 12),
                 C("device_status", 0, 6, 16)}
    [] r = 4 -> {S("aspm_control", 0, 2, 0), S("read_completion_boundary", 0, 1, 4),
                 S("link_enables", 0, 6, 6), C("link_bandwidth_status", 0, 2, 30)}
    [] OTHER -> {}
write_pcie_cap_register_slot(r) ==
  CASE r = 6 -> {S("slot_enables", 0, 6, 0), S("attention_indicator_control", 0, 2, 6),
                 S("power_indicator_control", 0, 2, 8), S("slot_controls", 0, 3, 10),
                 C("slot_events", 0, 5, 16), C("data_link_layer_state_changed", 0, 1, 24)}
    [] r = 7 -> {S("root_control", 0, 5, 0)}
    [] r = 8 -> {C("pme_status", 0, 1, 16)}
    [] r = 10 -> {S("device_control_2", 0, 11, 0), S("obff_enable", 0, 2, 13), S("prefix_blocking", 0, 1, 15)}
    [] r = 12 -> {S("link_control_2", 0, 6, 0), S("transmit_margin", 0, 3, 7), S("compliance", 0, 2, 10),
                  S("compliance_preset_de_emphasis", 0, 4, 12)}
    [] OTHER -> {}
write_pcie_cap_register(r) == write_pcie_cap_register_device(r) \cup write_pcie_cap_register_slot(r)

(* Message data and mask bits move up with a 64 bit message address.       *)
MsiReg(r) == IF fn.msi64 THEN r ELSE r + 1
read_msi_cap_register(r) ==
  CASE r = 0 -> {S("msi_enable", 0, 1, 16), S("msi_mmcap", 0, 3, 17), S("msi_mme", 0, 3, 20),
                 S("msi_64bit", 0, 1, 23), S("msi_masking", 0, 1, 24)}
    [] r = 1 -> {S("msi_address", 2, 30, 2)}
    [] r = 2 /\ fn.msi64 -> {S("msi_address", 32, 32, 0)}
    [] r > 1 /\ MsiReg(r) = 3 -> {S("msi_data", 0, 16, 0)}
    [] r > 1 /\ MsiReg(r) = 4 /\ fn.masking -> {S("msi_mask_bits", 0, 32, 0)}
    [] r > 1 /\ MsiReg(r) = 5 /\ fn.masking -> {S("msi_pending_bits", 0, 32, 0)}
    [] OTHER -> {}
write_msi_cap_register(r) ==
  CASE r = 0 -> {S("msi_enable", 0, 1, 16), S("msi_mme", 0, 3, 20)}
    [] r = 1 -> {S("msi_address", 2, 30, 2)}
    [] r = 2 /\ fn.msi64 -> {S("msi_address", 32, 32, 0)}
    [] r > 1 /\ MsiReg(r) = 3 -> {S("msi_data", 0, 16, 0)}
    [] r > 1 /\ MsiReg(r) = 4 /\ fn.masking -> {S("msi_mask_bits", 0, 32, 0)}
    [] OTHER -> {}

read_msix_cap_register(r) ==
  CASE r = 0 -> {S("msix_table_size", 0, 11, 16), S("msix_function_mask", 0, 1, 30), S("msix_enable", 0, 1, 31)}
    [] r = 1 -> {S("msix_table_bir", 0, 3, 0), S("msix_table_offset", 3, 29, 3)}
    [] r = 2 -> {S("msix_pba_bir", 0, 3, 0), S("msix_pba_offset", 3, 29, 3)}
    [] OTHER -> {}
write_msix_cap_register(r) ==
  IF r = 0 THEN {S("msix_function_mask", 0, 1, 30), S("msix_enable", 0, 1, 31)} ELSE {}

(* Registers common to both header types.                                  *)
Function_read_config_register(r) ==
  CASE r = 0 -> {S("vendor_id", 0, 16, 0), S("device_id", 0, 16, 16)}
    [] r = 1 -> {S("bus_master_enable", 0, 1, 2), S("parity_error_response", 0, 1, 6), S("serr_enable", 0, 1, 8),
                 S("interrupt_disable", 0, 1, 10), S("interrupt_status", 0, 1, 19), S("capabilities_list", 0, 1, 20),
                 S("master_data_parity_error", 0, 1, 24), S("error_status", 0, 5, 27)}
    [] r = 2 -> {S("rev_id", 0, 8, 0), S("class_code", 0, 24, 8)}
    [] r = 3 -> {S("cache_ln", 0, 8, 0), S("lat_timer", 0, 8, 8), S("header_type", 0, 8, 16), S("bist", 0, 8, 24)}
    [] OTHER -> {}
Function_write_config_register(r) ==
  CASE r = 1 -> {S("bus_master_enable", 0, 1, 2), S("parity_error_response", 0, 1, 6), S("serr_enable", 0, 1, 8),
                 S("interrupt_disable", 0, 1, 10), C("master_data_parity_error", 0, 1, 24), C("error_status", 0, 5, 27)}
    [] r = 3 -> {S("cache_ln", 0, 8, 0), S("lat_timer", 0, 8, 8), S("bist", 0, 8, 24)}
    [] OTHER -> {}

(* A BAR keeps the bits below its size: the writable part is one slice.    *)
BarName(i) == <<"bar0", "bar1", "bar2", "bar3", "bar4", "bar5">>[i + 1]
BarWrite(i) == LET low == fn.bar_low[i + 1] IN {S(BarName(i), low, 32 - low, low)}

Endpoint_read_config_register(r) ==
  CASE r \in 4 .. 9 -> {S(BarName(r - 4), 0, 32, 0)}
    [] r = 10 -> {S("cardbus_cis", 0, 32, 0)}
    [] r = 11 -> {S("subsystem_vendor_id", 0, 16, 0), S("subsystem_id", 0, 16, 16)}
    [] r = 12 -> {S("expansion_rom_addr", 0, 32, 0)}
    [] r = 13 -> {S("cap_ptr", 0, 8, 0)}
    [] r = 15 -> {S("intr_line", 0, 8, 0), S("intr_pin", 0, 8, 8)}
    [] OTHER -> Function_read_config_register(r)
Endpoint_write_config_register(r) ==
  CASE r \in 4 .. 9 -> BarWrite(r - 4)
    [] r = 12 -> {S("expansion_rom_addr", 0, 32, 0)}
    [] r = 15 -> {S("intr_line", 0, 8, 0), S("intr_pin", 0, 8, 8)}
    [] OTHER -> Function_write_config_register(r)

Bridge_read_config_register(r) ==
  CASE r \in 4 .. 5 -> {S(BarName(r - 4), 0, 32, 0)}
    [] r = 6 -> {S("pri_bus_num", 0, 8, 0), S("sec_bus_num", 0, 8, 8), S("sub_bus_num", 0, 8, 16), S("sec_lat_timer", 0, 8, 24)}
    [] r = 7 -> {S("io_base", 12, 4, 4), S("io_limit", 12, 4, 12), S("sec_status", 0, 16, 16)}
    [] r = 8 -> {S("mem_base", 20, 12, 4), S("mem_limit", 20, 12, 20)}
    [] r = 9 -> {S("pref_base", 20, 12, 4), S("pref_limit", 20, 12, 20)}
    [] r = 10 -> {S("pref_base", 32, 32, 0)}
    [] r = 11 -> {S("pref_limit", 32, 32, 0)}
    [] r = 12 -> {S("io_base", 16, 16, 0), S("io_limit", 16, 16, 16)}
    [] r = 13 -> {S("cap_ptr", 0, 8, 0)}
    [] r = 14 -> {S("expansion_rom_addr", 0, 32, 0)}
    [] r = 15 -> {S("intr_line", 0, 8, 0), S("intr_pin", 0, 8, 8), S("bridge_control", 0, 16, 16)}
    [] OTHER -> Function_read_config_register(r)
(* Register 15 is left out: its write stops with an AttributeError.        *)
Bridge_write_config_register(r) ==
  CASE r \in 4 .. 5 -> BarWrite(r - 4)
    [] r = 6 -> {S("pri_bus_num", 0, 8, 0), S("sec_bus_num", 0, 8, 8), S("sub_bus_num", 0, 8, 16), S("sec_lat_timer", 0, 8, 24)}
    [] r = 7 -> {S("io_base", 12, 4, 4), S("io_limit", 12, 4, 12)}
    [] r = 8 -> {S("mem_base", 20, 12, 4), S("mem_limit", 20, 12, 20)}
    [] r = 9 -> {S("pref_base", 20, 12, 4), S("pref_limit", 20, 12, 20)}
    [] r = 10 -> {S("pref_base", 32, 32, 0)}
    [] r = 11 -> {S("pref_limit", 32, 32, 0)}
    [] r = 12 -> {S("io_base", 16, 16, 0), S("io_limit", 16, 16, 16)}
    [] r = 14 -> {S("expansion_rom_addr", 0, 32, 0)}
    [] OTHER -> Function_write_config_register(r)

-----------------------------------------------------------------------------
(* A register is named by its block and its number within the block.       *)
Registers == ({"header"} \X (0 .. 15)) \cup ({"pm"} \X (0 .. 1)) \cup ({"pcie"} \X (0 .. 14))
             \cup (IF fn.bridge THEN {} ELSE ({"msi"} \X (0 .. 5)) \cup ({"msix"} \X (0 .. 2)))

read_config_register(reg) ==
  CASE reg[1] = "header" -> IF fn.bridge THEN Bridge_read_config_register(reg[2])
                            ELSE Endpoint_read_config_register(reg[2])
    [] reg[1] = "pm"   -> read_pm_cap_register(reg[2])
    [] reg[1] = "pcie" -> read_pcie_cap_register(reg[2])
    [] reg[1] = "msi"  -> read_msi_cap_register(reg[2])
    [] reg[1] = "msix" -> read_msix_cap_register(reg[2])
write_config_register(reg) ==
  CASE reg[1] = "header" -> IF fn.bridge THEN Bridge_write_config_register(reg[2])
                            ELSE Endpoint_write_config_register(reg[2])
    [] reg[1] = "pm"   -> {}
    [] reg[1] = "pcie" -> write_pcie_cap_register(reg[2])
    [] reg[1] = "msi"  -> write_msi_cap_register(reg[2])
    [] reg[1] = "msix" -> write_msix_cap_register(reg[2])

Value(f) == IF f \in DOMAIN val THEN val[f] ELSE {}
Read(reg) == UNION {{s.pos + b - s.lo : b \in Value(s.f) \cap (s.lo .. s.lo + s.w - 1)} :
                    s \in read_config_register(reg)}

\* Mutant: the byte enables are ignored.
byte_mask_updateAll(s, old, data, lanes) ==
  LET at(b) == s.pos + b - s.lo
      covered == s.lo .. s.lo + s.w - 1
  IN IF s.w1c THEN {b \in old : at(b) \notin data}
     ELSE (old \ covered) \cup {b \in covered : at(b) \in data}
(* The bits of field f after a write, lane by lane.                        *)
byte_mask_update(s, old, data, lanes) ==
  LET at(b) == s.pos + b - s.lo
      covered == {b \in s.lo .. s.lo + s.w - 1 : (at(b) \div 8) \in lanes}
  IN IF s.w1c THEN {b \in old : b \notin covered \/ at(b) \notin data}
     ELSE (old \ covered) \cup {b \in covered : at(b) \in data}

(* Config space of a function that has had events: status bits are set.   *)
StatusFields == {"device_status", "link_bandwidth_status", "slot_events", "pme_status", "error_status"}
CInit ==
  /\ fn \in Functions
  /\ val = [f \in StatusFields |-> IF f = "pme_status" THEN {0} ELSE {0, 1}]
  /\ last = [reg |-> <<"none", 0>>]
  /\ writes = 0

Write(reg, data, lanes) ==
  /\ writes < MAXWRITES
  /\ ~(fn.bridge /\ reg = <<"header", 15>>)
  /\ LET ws == write_config_register(reg)
         fs == {s.f : s \in ws}
     IN val' = [f \in DOMAIN val \cup fs |->
                  IF f \in fs
                  THEN byte_mask_update(CHOOSE s \in ws : s.f = f, Value(f), data, lanes)
                  ELSE val[f]]
  /\ last' = [reg |-> reg, data |-> data, lanes |-> lanes, before |-> [r \in Registers |-> Read(r)]]
  /\ writes' = writes + 1
  /\ UNCHANGED fn

CNext == \E reg \in Registers, data \in Patterns, lanes \in Lanes : Write(reg, data, lanes)

CSpec == CInit /\ [][CNext]_cvars

-----------------------------------------------------------------------------
(* Positions of register reg that hold a bit the write method takes.       *)
Taken(reg, w1c) ==
  {p \in 0 .. 31 : \E s \in read_config_register(reg), t \in write_config_register(reg) :
     /\ s.f = t.f /\ t.w1c = w1c
     /\ p \in s.pos .. s.pos + s.w - 1
     /\ p - s.pos + s.lo \in t.lo .. t.lo + t.w - 1}

(* The read completion boundary is read from bit 3 of link control and     *)
(* written from bit 4, and link disable is read from bit 4.                *)
Moved(reg) == IF reg = <<"pcie", 4>> THEN {3} ELSE {}

(* A config write with byte enables sets exactly the writable bits of the  *)
(* enabled bytes to the data written (or clears the status bits written    *)
(* with one), as read back through the read methods, and changes nothing   *)
(* else of that or any other register (read_ and write_ methods of the     *)
(* capabilities, Endpoint, Bridge; byte_mask_update).                      *)
WriteReadsBack ==
  last.reg # <<"none", 0>> =>
    \A r \in Registers :
      IF r # last.reg THEN Read(r) = last.before[r]
      ELSE LET on == {p \in 0 .. 31 : (p \div 8) \in last.lanes}
               rw == Taken(r, FALSE) \cap on
               rc == Taken(r, TRUE) \cap on
           IN (Read(r) \ Moved(r)) = ((last.before[r] \ (rw \cup (rc \cap last.data)))
                                      \cup (rw \cap last.data)) \ Moved(r)
=============================================================================
