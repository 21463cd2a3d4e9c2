\* Two threads, two VLANs, and a port in each half of the port set.
SPECIFICATION Spec
CONSTANTS
  Caller = {c1, c2}
  Vid = {v1, v2}
  Low = {p1}
  High = {p17}
  Cpu = p29
  Tag = {}
PROPERTY OnlyNamedPortsChange
