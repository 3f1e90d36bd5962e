SPECIFICATION Spec
CONSTANTS
  NoOne = NoOne
  Users = {u1, u2}
  GuildUsers = {u1, u2, u3}
  Founder = u1
  Manager = u2
  InstanceAdmins = {}
  RoleCount = 3
  maxRolesPerGuild = 4
  Masks <- RoleMasks
  Requests = {q1, q2}
  MaxBegun = 3
  Guilds = {g1, g2, g3}
  GuildInvites = {i1, i2}
  Txs = {t1, t2}
  maxGuildsPerAccount = 1
  maxJoinedGuildsPerAccount = 2
  MaxInviteUses = 1
  MaxMessages = 2
  MaxTexts = 3
  Editors = {e1, e2}
  Tags = {g1, g2}
  Reports = {r1}
  Targeted = {m1, m2}
  MaxSharedTagsPerGuild = 1
  MaxPrivateTagsPerMember = 1
  Channels = {c1, c2, c3}
  Creators = {r1, r2}
  OverwriteSets = {open, locked}
  maxChannelsPerGuild = 2
  SettingTexts = {t1}
  NullText = NullText
  SettingsTxs = {x1, x2}
  MaxEntries = 4
  MaxRow = 4
  defaultPageSize = 1
  maxPageSize = 2
  Limits = {0, 3}
INVARIANTS
  TypeOK
  NothingUnconferred
  CountsHold
  
  
CHECK_DEADLOCK FALSE
