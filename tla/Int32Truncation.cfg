CONSTANTS
  IntBits <- MCIntBits
  Int32Bits <- MCInt32Bits
  JsonKeys <- MCJsonKeys
  JsonValues <- MCJsonValues
  AddonOrder <- MCAddonOrder
  AddonSchema <- MCAddonSchema
  AddonEnv <- MCAddonEnv
  AddonDefault <- MCAddonDefault
  AddonSerialKeys <- MCAddonSerialKeys
  GeneratedNames <- MCGeneratedNames
  AbsPaths <- MCAbsPaths
  CwdJoin <- MCCwdJoin
  Unwritable <- MCUnwritable
  LoadPaths <- EtcOnly
  CollabWrites <- ELBOnly
  Envs <- WideEnvs
  InitDisks <- HandDisks
  Nil = Nil
  NoFile = NoFile
  NoWrite = NoWrite
  Torn = Torn

SPECIFICATION Spec
PROPERTY AssignedAsParsed
