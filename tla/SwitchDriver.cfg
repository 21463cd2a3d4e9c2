\* Two entries of the VLAN table, and the window as anybody may leave it; ports
\* at both ends of a register, of the map and of the fast ports; two slots
\* of each table of addresses; every field of an entry for IGMP.
SPECIFICATION MCSpec
CONSTANTS
  Vid = {v1, v2}
  PortMap <- PortMaps
  Code <- CodeValues
  Mac = {"m1", "m2", "m3"}
  Ip4 = {"a1", "a2"}
  Ip6 = {"b1"}
  Slot = {1, 2}
  Hash <- HashOf
  LutInfo <- LutInfos
  ImpInfo <- ImpInfos
  MctEntry <- MctEntries
  SltEntry <- SltEntries
  Ports = {1, 2, 16, 17, 24, 25, 28, 29}
INVARIANTS TypeOK FieldsKept SettingsKept AddressTypeOK EntriesKept IgmpTypeOK IgmpKept
