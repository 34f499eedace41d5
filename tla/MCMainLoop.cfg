SPECIFICATION FairSpec
CONSTANTS
  Addresses <- MCAddresses
  WanModes = {"DHCP", "STATIC"}
  BoxChannels = {6, 11}
  WlnChannels = {6, 13}
  Readers = {"join", "poll", "announce"}
INVARIANTS TypeOK ToldIsOurs ChannelOfThisConnection
PROPERTIES JoinsInTheEnd
