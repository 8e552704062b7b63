SPECIFICATION Spec
CONSTANTS
  AlsaPorts = {"synth", "sampler", "hidden"}
  address <- MCaddress
  caps <- MCcaps
  owner <- MCowner
  Ourselves = "jack-graph"
  System = "System"
  QueueSize = 1
  JackPorts = {"capture", "playback"}
  jackOut = {"capture"}
  jackIn = {"playback"}
INVARIANTS
  GraphInv
PROPERTIES
  ViewSettles
