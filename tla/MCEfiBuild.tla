----------------------------- MODULE MCEfiBuild -----------------------------
(* Small instances of EfiBuild: ThinkPad T480s with and without devices that
   the database knows, Sequoia, and drafts that are ready to be built. *)
EXTENDS EfiBuild

CONSTANTS t1, t2, u1, b1, b2

MCModels ==
    {[id |-> "thinkpad-t480s", types |-> {"20L7", "20L8"}, generations |-> {7, 8}, mx150 |-> FALSE,
      status |-> [p \in {"sonoma", "sequoia", "tahoe"} |-> "experimental"]],
     [id |-> "thinkpad-t480", types |-> {"20L5", "20L6"}, generations |-> {7, 8}, mx150 |-> TRUE,
      status |-> [p \in {"sonoma", "sequoia", "tahoe"} |-> "experimental"]]}

MCOsStatus == [p \in {"sonoma", "sequoia", "tahoe"} |-> "experimental"]

Policies(state, needs) ==
    [p \in {"sonoma", "sequoia", "tahoe"} |-> [state |-> state, needs |-> needs]]

Listed(id, category, ids, kinds, policy) ==
    [id |-> id, category |-> category, ids |-> ids, kinds |-> kinds, buses |-> {}, policy |-> policy]

MCCatalog ==
    <<Listed("intel-uhd-620", "graphics", {"8086:5917"}, {}, Policies("experimental", {"framebuffer connectors"})),
      Listed("intel-hd-620", "graphics", {"8086:5916"}, {}, Policies("experimental", {"framebuffer connectors"})),
      Listed("nvidia-geforce-mx150", "graphics", {"10de:1d10"}, {}, Policies("conditional", {})),
      Listed("realtek-alc257", "audio", {"ALC257"}, {}, Policies("experimental", {"audio layout id"})),
      Listed("intel-i219-lm", "ethernet", {"8086:15d7"}, {}, Policies("experimental", {})),
      Listed("intel-ac-8265", "wifi", {"8086:24fd"}, {}, Policies("experimental", {})),
      Listed("intel-bluetooth", "bluetooth", {"8087:0a2b"}, {}, Policies("experimental", {})),
      Listed("samsung-pm981", "storage", {"PM981"}, {}, Policies("conditional", {})),
      Listed("standard-nvme", "storage", {}, {"nvme"}, Policies("experimental", {}))>>

MCPrerequisites ==
    [d \in {"opencore", "virtualsmc", "lilu", "whatevergreen", "applealc", "intelmausi", "nvmefix",
            "itlwm", "intel_bluetooth_firmware", "bluetoolfixup"} |->
        IF d \in {"virtualsmc", "whatevergreen", "applealc", "nvmefix", "bluetoolfixup"}
        THEN <<"lilu">> ELSE <<>>]

MCSorted ==
    <<"applealc", "bluetoolfixup", "intel_bluetooth_firmware", "intelmausi", "itlwm", "lilu",
      "nvmefix", "opencore", "virtualsmc", "whatevergreen">>

\* The archives of the catalog, with the plug-ins of VirtualSMC and of Intel's
\* Bluetooth; OpenCore's has no kernel extension.
MCKexts ==
    [d \in DOMAIN MCPrerequisites |->
        CASE d = "opencore" -> {}
          [] d = "virtualsmc" -> {"virtualsmc", "smcbatterymanager", "smcprocessor", "smcsuperio"}
          [] d = "intel_bluetooth_firmware" -> {"intelbluetoothfirmware", "intelbtpatcher"}
          [] OTHER -> {d}]

MCKextNames ==
    <<"applealc", "bluetoolfixup", "intelbluetoothfirmware", "intelbtpatcher", "intelmausi",
      "itlwm", "lilu", "nvmefix", "smcbatterymanager", "smcprocessor", "smcsuperio", "virtualsmc",
      "whatevergreen">>

Sequoia == [product |-> "sequoia", version |-> "15.0"]
MCReleases == {Sequoia}
Bios == "N22ET85W-1.62"
MCReviewed == [model |-> "thinkpad-t480s", release |-> Sequoia, bios |-> Bios]
Version == "policy"

Choice(values, acknowledged) ==
    [values |-> values, products |-> {"sequoia"}, acknowledged |-> acknowledged, conflicts |-> {}]

MCOptions ==
    [o \in {"profile.graphics", "profile.audio"} |->
        IF o = "profile.graphics" THEN Choice({"kaby-lake-r-uhd620"}, FALSE)
        ELSE Choice({"layout-11", "layout-99"}, TRUE)]

-----------------------------------------------------------------------------

Device(ids, kind) == [ids |-> ids, kind |-> kind, bus |-> "pci"]

Laptop(id, found, complete) ==
    [id |-> id, vendor |-> "LENOVO", type |-> "20L8", named |-> TRUE, products |-> {"thinkpad-t480s"},
     cpu |-> [intel |-> TRUE, generation |-> 8], igpu |-> Device({"8086:5917"}, "igpu"),
     dgpus |-> {}, found |-> [i \in Inventories |-> found[i]], complete |-> complete, bios |-> Bios]

Equipped ==
    [audio |-> {Device({"ALC257"}, "codec")}, ethernet |-> {Device({"8086:15d7"}, "nic")},
     wifi |-> {Device({"8086:24fd"}, "nic")}, bluetooth |-> {Device({"8087:0a2b"}, "usb")},
     storage |-> {Device({"PM981"}, "nvme")}, input |-> {}]

MCSnapshots ==
    [id \in {"whole", "modest", "older", "strange", "half probed"} |->
        CASE id = "whole" -> Laptop(id, Equipped, Inventories)
          [] id = "older" ->
                 [Laptop(id, Equipped, Inventories) EXCEPT
                      !.cpu.generation = 7, !.igpu = Device({"8086:5916"}, "igpu")]
          [] id = "modest" ->
                 Laptop(id, [Equipped EXCEPT !["wifi"] = {}, !["bluetooth"] = {}], Inventories)
          [] id = "strange" ->
                 Laptop(id, [Equipped EXCEPT !["wifi"] = {Device({"14e4:43a0"}, "nic")}], Inventories)
          [] id = "half probed" ->
                 Laptop(id, [Equipped EXCEPT !["wifi"] = {}], Inventories \ {"wifi"})]

\* A draft with everything selected, captured and acknowledged that must be, but
\* perhaps for the identity.
Ready(s, identity) ==
    LET usb == [kind |-> "usb", machine |-> s, bios |-> Bios, digest |-> u1, ref |-> "u", ports |-> TRUE]
        acpi == [kind |-> "acpi", machine |-> s, bios |-> Bios, digest |-> <<"c", t1>>,
                 ref |-> "c", ports |-> FALSE]
        plain == [machine |-> s, policy |-> Version, target |-> Sequoia,
                  options |-> [o \in DOMAIN MCOptions |->
                      IF o = "profile.audio" THEN "layout-11" ELSE "kaby-lake-r-uhd620"],
                  evidence |-> {usb, acpi}, identity |-> identity, acks |-> {}]
    IN  WithAck(plain, "profile.audio")

Captured(s) ==
    [ref \in {"u", "c", "d"} |->
        CASE ref = "u" -> [kind |-> "usb", machine |-> s, bios |-> Bios, digest |-> u1, tables |-> None]
          [] ref = "c" -> [kind |-> "acpi", machine |-> s, bios |-> Bios, digest |-> <<"c", t1>>, tables |-> t1]
          [] OTHER -> None]

\* An imported draft that names no machine and no policy.
Unbound(d) == WithAck([d EXCEPT !.machine = None, !.policy = None, !.acks = {}], "profile.audio")

Case(s, d, found) == [machine |-> s, draft |-> d, disk |-> Captured(s), tools |-> found]

AllGood == [t \in Tools |-> "good"]

\* An installation that has a damaged compiler and lacks the rest.
Damaged == [t \in Tools |-> IF t = "iasl" THEN "bad" ELSE "none"]

MCCases ==
    {Case("whole", Ready("whole", None), AllGood), Case("modest", Ready("modest", "i"), AllGood),
     Case("older", Unbound(Ready("older", None)), Damaged),
     Case("strange", Ready("strange", "i"), AllGood),
     Case("half probed", Ready("half probed", "i"), AllGood)}

Alike == Permutations(Builders)
=============================================================================
